---- MODULE Spec2Model ----
(***************************************************************************)
(* KK-Switch: the debounced polling engine (class Switch) with its         *)
(* pluggable sequence analyzers (SwitchStateAnalyzer and subclasses) and   *)
(* the dual-pin RotaryEncoder adapter.                                     *)
(*                                                                         *)
(* One engine instance and the analyzer it references are modelled         *)
(* together with their environment: the millisecond clock (millis()) and   *)
(* the levels of the input pins.  Every public operation is one action.    *)
(***************************************************************************)
EXTENDS Integers, Naturals, Sequences, FiniteSets, TLC

(***************************************************************************)
(* Bounds of the model.                                                    *)
(***************************************************************************)
\* the clock is advanced at most this many milliseconds after boot
MaxTime == 6
\* largest advance of millis() between the engine's and the analyzer's read
\* of the clock inside one hasChanged() call
MaxSkew == 1
\* the clock wraps around this many milliseconds after a construction that
\* comes shortly before the wrap
WrapLead == 3

(***************************************************************************)
(* Program constants.                                                      *)
(***************************************************************************)
\* Switch.h: reserved "no sample taken yet" state
SW_STATE_UNDEFINED == 255
\* Switch.h: the two raw states of a digital pin
SW_STATE_DEFAULT_OFF == 0
SW_STATE_DEFAULT_ON == 1
\* byte arithmetic
ByteMod == 256
\* unsigned long arithmetic of millis(): the clock wraps to 0 at ClockMod.  The
\* program's modulus is 2^32; TLC's integers end below it, so the model wraps
\* at 2^30, which like 2^32 is a multiple of UIntMod and far above every
\* wait time.
ClockMod == 1073741824
\* unsigned int (16 bit, "up to 65 seconds push duration")
UIntMod == 65536
\* limits of Switch::init
MinNumState == 2
MaxNumState == 64
\* limit of PushButtonRepeatAnalyzer::init
PBR_MAX_MILLIS == 2000
\* resolution of analogRead
AnalogRange == 1024

PBR_STATE_E_OFF == 0
PBR_STATE_E_SINGLE == 1
PBR_STATE_E_CONT_A == 2
PBR_STATE_E_CONT_B == 3
PBR_STATE_I_OFF == 4
PBR_STATE_I_ON == 5
PBR_STATE_I_CONT_A == 6
PBR_STATE_I_CONT_B == 7
PBR_STATE_I_UNDEFINED == 255

PBDL_STATE_E_OFF == 0
PBDL_STATE_E_SINGLE == 1
PBDL_STATE_E_DOUBLE == 2
PBDL_STATE_E_LONG == 3
PBDL_STATE_I_OFF == 4
PBDL_STATE_I_ON == 5
PBDL_STATE_I_DBLOFF == 6
PBDL_STATE_I_DBL2ON == 7
PBDL_STATE_I_LONGTIMEOUT == 8
PBDL_STATE_I_UNDEFINED == 255

REA_STATE_E_OFF == 0
REA_STATE_E_DIRECTION_R == 1
REA_STATE_E_DIRECTION_L == 2
REA_STATE_I_OFF == 3
REA_STATE_I_RIGHT_A == 4
REA_STATE_I_LEFT_B == 5
REA_STATE_I_UNDEFINED == 255
REA_SWSTATE_OFF == 0
REA_SWSTATE_A == 1
REA_SWSTATE_B == 2
REA_SWSTATE_AB == 3

Max(a, b) == IF a > b THEN a ELSE b

VARIABLES
  \* ---- environment
  now,              \* millis()
  bootTime,         \* millis() at construction (never changes)
  pinA, pinB,       \* level of the input pins (pinA: analog level for AnalogSwitch)
  \* ---- how the engine was constructed (never changes)
  ctor,             \* "numState": Switch(numState, ...), "ssa": Switch(ssa, ...)
  numStateArg,      \* the numState argument handed to Switch::init
  port,             \* whose getRawState(): "digital", "analog", "dual"
  \* ---- Switch
  _SSA,             \* "null" (0 pointer) or the class of the referenced analyzer
  _numState, _readCycleMillis, _debounceMillis, _invertRaw,
  _mapValues,       \* <<>> for the 0 pointer, else the table [0.._numState-1 -> byte]
  _currentState, _previousState, _lastRawState, _lastReadMillis, _debouncing,
  \* ---- the analyzer object (fields of the subclasses; 0/FALSE where absent)
  _longStartMillis, _repeatMillis,
  _maxDoubleMillis, _minLongMillis, _endLongByTime,
  _procStart, _internalState,
  \* ---- what the last operation did
  lastOp,           \* "init", "hasChanged", "reset", "setMapping", "tick", "pin"
  ret,              \* return value of the last hasChanged()
  portReads,        \* getRawState() calls made by the last operation
  ssaSteps,         \* getAnalyzerState() calls made by the last operation
  \* ---- history
  reported,         \* hasChanged() calls that returned true since init() or
                    \* the last reset(); 2 stands for 2 and more
  seqStart,         \* clock value at the first push of the sequence the push
                    \* button analyzer is in, 0 outside a sequence
  \* ---- a hasChanged() called from loop() that an interrupt may interrupt
  loopCall          \* where the call stands, its local variables, and whether
                    \* a call from the interrupt routine ever ran inside one

env == <<now, bootTime, pinA, pinB>>
construction == <<ctor, numStateArg, port, _SSA, _numState, _readCycleMillis,
                  _debounceMillis, _invertRaw>>
ssaConfig == <<_longStartMillis, _repeatMillis, _maxDoubleMillis, _minLongMillis,
               _endLongByTime>>
ssaState == <<_procStart, _internalState>>
engineState == <<_currentState, _previousState, _lastRawState, _lastReadMillis,
                 _debouncing>>
observed == <<lastOp, ret, portReads, ssaSteps>>
vars == <<env, construction, ssaConfig, ssaState, engineState, _mapValues, observed,
          seqStart, loopCall, reported>>

(***************************************************************************)
(* SwitchStateAnalyzer and its subclasses.  A step of an analyzer is a     *)
(* function of the clock value it reads, the raw state handed over and its *)
(* fields; the result names the returned state and the new field values.   *)
(***************************************************************************)
StepResult(o, st, ps) == [out |-> o, st |-> st, ps |-> ps]

\* slip: the base class returns the default state instead of the one handed over
SSA_getAnalyzerState_defaultOff(switchState, st0, ps0) ==
  StepResult(SW_STATE_DEFAULT_OFF, st0, ps0)

\* SwitchStateAnalyzer::getAnalyzerState
SSA_getAnalyzerState(switchState, st0, ps0) == StepResult(switchState, st0, ps0)

\* slip: the duration is taken from the clock value alone
ProcDuration_sinceBoot(current, procStart) == (current % ClockMod) % UIntMod

\* slip: the two clock values are cut to 16 bit and then subtracted as
\* signed numbers
ProcDuration_cutFirst(current, procStart) ==
  (current % UIntMod) - (procStart % UIntMod)

\* unsigned int procDuration = (unsigned int)(current - _procStart)
ProcDuration(current, procStart) == ((current - procStart) % ClockMod) % UIntMod

\* PushButtonRepeatAnalyzer::init
PBR_init(millisArg) == IF millisArg > PBR_MAX_MILLIS THEN PBR_MAX_MILLIS ELSE millisArg

\* slip: the position is taken within one repeat period instead of two
PBR_repeatDuration_onePeriod(procDuration, longStart, repeat) ==
  IF repeat > 0 /\ procDuration > longStart
  THEN ((procDuration - longStart) % UIntMod) % (repeat % UIntMod)
  ELSE 0

\* unsigned int repeatDuration: the position within the pair of repeat periods
PBR_repeatDuration(procDuration, longStart, repeat) ==
  IF repeat > 0 /\ procDuration > longStart
  THEN ((procDuration - longStart) % UIntMod) % ((2 * repeat) % UIntMod)
  ELSE 0

\* PushButtonRepeatAnalyzer::getAnalyzerState
PBR_getAnalyzerState(current, switchState, longStart, repeat, st0, ps0) ==
  LET stateOn == (switchState = SW_STATE_DEFAULT_ON)
      undef == (st0 = PBR_STATE_I_UNDEFINED)
      st1 == IF undef THEN (IF stateOn THEN PBR_STATE_I_ON ELSE PBR_STATE_I_OFF) ELSE st0
      ps1 == IF undef /\ stateOn THEN current ELSE ps0
      procDuration == ProcDuration(current, ps1)
      repeatDuration == PBR_repeatDuration(procDuration, longStart, repeat)
  IN  CASE st1 = PBR_STATE_I_OFF ->
             IF ~stateOn THEN StepResult(PBR_STATE_E_OFF, st1, ps1)
             ELSE StepResult(PBR_STATE_E_OFF, PBR_STATE_I_ON, current)
        [] st1 = PBR_STATE_I_ON ->
             IF stateOn
             THEN IF longStart > 0 /\ procDuration >= longStart
                  THEN StepResult(PBR_STATE_E_CONT_A, PBR_STATE_I_CONT_A, ps1)
                  ELSE StepResult(PBR_STATE_E_OFF, st1, ps1)
             ELSE StepResult(PBR_STATE_E_SINGLE, PBR_STATE_I_OFF, 0)
        [] st1 = PBR_STATE_I_CONT_A ->
             IF stateOn
             THEN IF repeatDuration >= repeat
                  THEN StepResult(PBR_STATE_E_CONT_B, PBR_STATE_I_CONT_B, ps1)
                  ELSE StepResult(PBR_STATE_E_CONT_A, st1, ps1)
             ELSE StepResult(PBR_STATE_E_OFF, PBR_STATE_I_OFF, 0)
        [] st1 = PBR_STATE_I_CONT_B ->
             IF stateOn
             THEN IF repeatDuration < repeat
                  THEN StepResult(PBR_STATE_E_CONT_A, PBR_STATE_I_CONT_A, ps1)
                  ELSE StepResult(PBR_STATE_E_CONT_B, st1, ps1)
             ELSE StepResult(PBR_STATE_E_OFF, PBR_STATE_I_OFF, 0)
        [] OTHER -> StepResult(PBR_STATE_E_OFF, st1, ps1)

\* slip: a push of exactly minLongMillis counts as long at the release
PBDL_longRelease_inclusive(procDuration, minLong) ==
  minLong > 0 /\ procDuration >= minLong

\* slip: the release does not ask whether the long push analysis is on
PBDL_longRelease_noSwitch(procDuration, minLong) ==
  procDuration > minLong

\* the released push lasted long enough for a long push
PBDL_longRelease(procDuration, minLong) ==
  minLong > 0 /\ procDuration > minLong

\* PushButtonDoubleLongAnalyzer::getAnalyzerState, the normal state changes
PBDL_stateChange(current, stateOn, procDuration, maxDouble, minLong, st1, ps1) ==
  CASE st1 = PBDL_STATE_I_OFF ->
         IF stateOn THEN StepResult(PBDL_STATE_E_OFF, PBDL_STATE_I_ON, current)
         ELSE StepResult(PBDL_STATE_E_OFF, st1, ps1)
    [] st1 = PBDL_STATE_I_ON ->
         IF stateOn THEN StepResult(PBDL_STATE_E_OFF, st1, ps1)
         ELSE IF PBDL_longRelease(procDuration, minLong)
              THEN StepResult(PBDL_STATE_E_LONG, PBDL_STATE_I_OFF, 0)
         ELSE IF maxDouble > 0 /\ procDuration < maxDouble
              THEN StepResult(PBDL_STATE_E_OFF, PBDL_STATE_I_DBLOFF, ps1)
         ELSE StepResult(PBDL_STATE_E_SINGLE, PBDL_STATE_I_OFF, 0)
    [] st1 = PBDL_STATE_I_DBLOFF ->
         IF stateOn THEN StepResult(PBDL_STATE_E_OFF, PBDL_STATE_I_DBL2ON, current)
         ELSE StepResult(PBDL_STATE_E_OFF, st1, ps1)
    [] st1 = PBDL_STATE_I_DBL2ON ->
         IF ~stateOn THEN StepResult(PBDL_STATE_E_DOUBLE, PBDL_STATE_I_OFF, 0)
         ELSE StepResult(PBDL_STATE_E_OFF, st1, ps1)
    [] st1 = PBDL_STATE_I_LONGTIMEOUT ->
         IF ~stateOn THEN StepResult(PBDL_STATE_E_OFF, PBDL_STATE_I_OFF, 0)
         ELSE StepResult(PBDL_STATE_E_OFF, st1, ps1)
    [] OTHER -> StepResult(PBDL_STATE_E_OFF, st1, ps1)

\* slip: the time out of the long push does not ask for the state ON
PBDL_longTimeout_anyState(procDuration, minLong, endLongByTime, st1) ==
  minLong > 0 /\ procDuration > minLong
  /\ st1 \in {PBDL_STATE_I_ON, PBDL_STATE_I_LONGTIMEOUT} /\ endLongByTime

\* slip: the time out of the long push does not ask for _endLongByTime
PBDL_longTimeout_always(procDuration, minLong, endLongByTime, st1) ==
  minLong > 0 /\ procDuration > minLong
  /\ st1 = PBDL_STATE_I_ON

\* the time out of a long push that ends by time
PBDL_longTimeout(procDuration, minLong, endLongByTime, st1) ==
  minLong > 0 /\ procDuration > minLong
  /\ st1 = PBDL_STATE_I_ON /\ endLongByTime

\* slip: only the wait for the second push times out, not the second push
PBDL_doubleTimeout_onlyWaiting(procDuration, maxDouble, st1) ==
  maxDouble > 0 /\ procDuration > maxDouble
  /\ st1 = PBDL_STATE_I_DBLOFF

\* slip: the double push times out at maxDoubleMillis already
PBDL_doubleTimeout_inclusive(procDuration, maxDouble, st1) ==
  maxDouble > 0 /\ procDuration >= maxDouble
  /\ (st1 = PBDL_STATE_I_DBLOFF \/ st1 = PBDL_STATE_I_DBL2ON)

\* the time out of a started double push
PBDL_doubleTimeout(procDuration, maxDouble, st1) ==
  maxDouble > 0 /\ procDuration > maxDouble
  /\ (st1 = PBDL_STATE_I_DBLOFF \/ st1 = PBDL_STATE_I_DBL2ON)

\* PushButtonDoubleLongAnalyzer::getAnalyzerState
PBDL_getAnalyzerState(current, switchState, maxDouble, minLong, endLongByTime, st0, ps0) ==
  LET stateOn == (switchState = SW_STATE_DEFAULT_ON)
      undef == (st0 = PBDL_STATE_I_UNDEFINED)
      st1 == IF undef THEN (IF stateOn THEN PBDL_STATE_I_ON ELSE PBDL_STATE_I_OFF) ELSE st0
      ps1 == IF undef /\ stateOn THEN current ELSE ps0
      procDuration == ProcDuration(current, ps1)
  IN  IF PBDL_longTimeout(procDuration, minLong, endLongByTime, st1)
      THEN StepResult(PBDL_STATE_E_LONG, PBDL_STATE_I_LONGTIMEOUT, ps1)
      ELSE IF PBDL_doubleTimeout(procDuration, maxDouble, st1)
      THEN IF stateOn THEN StepResult(PBDL_STATE_E_SINGLE, PBDL_STATE_I_ON, current)
           ELSE StepResult(PBDL_STATE_E_SINGLE, PBDL_STATE_I_OFF, 0)
      ELSE PBDL_stateChange(current, stateOn, procDuration, maxDouble, minLong, st1, ps1)

\* slip: an open turn follows the contact seen last
REA_getAnalyzerState_followsContact(switchState, st0, ps0) ==
  LET st1 == IF st0 = REA_STATE_I_UNDEFINED THEN REA_STATE_I_OFF ELSE st0
  IN  CASE st1 = REA_STATE_I_OFF ->
             IF switchState = REA_SWSTATE_A
             THEN StepResult(REA_STATE_E_OFF, REA_STATE_I_RIGHT_A, ps0)
             ELSE IF switchState = REA_SWSTATE_B
             THEN StepResult(REA_STATE_E_OFF, REA_STATE_I_LEFT_B, ps0)
             ELSE StepResult(REA_STATE_E_OFF, st1, ps0)
        [] st1 = REA_STATE_I_RIGHT_A ->
             IF switchState = REA_SWSTATE_OFF
             THEN StepResult(REA_STATE_E_DIRECTION_R, REA_STATE_I_OFF, ps0)
             ELSE IF switchState = REA_SWSTATE_B
             THEN StepResult(REA_STATE_E_OFF, REA_STATE_I_LEFT_B, ps0)
             ELSE StepResult(REA_STATE_E_OFF, st1, ps0)
        [] st1 = REA_STATE_I_LEFT_B ->
             IF switchState = REA_SWSTATE_OFF
             THEN StepResult(REA_STATE_E_DIRECTION_L, REA_STATE_I_OFF, ps0)
             ELSE IF switchState = REA_SWSTATE_A
             THEN StepResult(REA_STATE_E_OFF, REA_STATE_I_RIGHT_A, ps0)
             ELSE StepResult(REA_STATE_E_OFF, st1, ps0)
        [] OTHER -> StepResult(REA_STATE_E_OFF, st1, ps0)

\* RotaryEncoderAnalyzer::getAnalyzerState
REA_getAnalyzerState(switchState, st0, ps0) ==
  LET st1 == IF st0 = REA_STATE_I_UNDEFINED THEN REA_STATE_I_OFF ELSE st0
  IN  CASE st1 = REA_STATE_I_OFF ->
             IF switchState = REA_SWSTATE_A
             THEN StepResult(REA_STATE_E_OFF, REA_STATE_I_RIGHT_A, ps0)
             ELSE IF switchState = REA_SWSTATE_B
             THEN StepResult(REA_STATE_E_OFF, REA_STATE_I_LEFT_B, ps0)
             ELSE StepResult(REA_STATE_E_OFF, st1, ps0)
        [] st1 = REA_STATE_I_RIGHT_A ->
             IF switchState = REA_SWSTATE_OFF
             THEN StepResult(REA_STATE_E_DIRECTION_R, REA_STATE_I_OFF, ps0)
             ELSE StepResult(REA_STATE_E_OFF, st1, ps0)
        [] st1 = REA_STATE_I_LEFT_B ->
             IF switchState = REA_SWSTATE_OFF
             THEN StepResult(REA_STATE_E_DIRECTION_L, REA_STATE_I_OFF, ps0)
             ELSE StepResult(REA_STATE_E_OFF, st1, ps0)
        [] OTHER -> StepResult(REA_STATE_E_OFF, st1, ps0)

(***************************************************************************)
(* Virtual methods of the analyzer, dispatched on the class of the object  *)
(* the engine references.                                                  *)
(***************************************************************************)
\* slip: PushButtonRepeatAnalyzer returns the twentieth without the minimum
getReadCycleMillis_noMinimum(ssa, repeat, maxDouble, minLong) ==
  CASE ssa = "pbr"  -> (repeat \div 20) % ByteMod
    [] ssa = "pbdl" -> (Max(maxDouble, minLong) \div 20) % ByteMod
    [] ssa = "rea"  -> 2
    [] OTHER        -> 0

getReadCycleMillis(ssa, repeat, maxDouble, minLong) ==
  CASE ssa = "pbr"  -> Max(repeat \div 20, 1) % ByteMod
    [] ssa = "pbdl" -> (Max(maxDouble, minLong) \div 20) % ByteMod
    [] ssa = "rea"  -> 2
    [] OTHER        -> 0

\* slip: the push button double long analyzer announces 3 states
getNumAnalyzerStates_pbdlThree(ssa) ==
  CASE ssa = "pbr"  -> 4
    [] ssa = "pbdl" -> 3
    [] ssa = "rea"  -> 3
    [] OTHER        -> 2

getNumAnalyzerStates(ssa) ==
  CASE ssa = "pbr"  -> 4
    [] ssa = "pbdl" -> 4
    [] ssa = "rea"  -> 3
    [] OTHER        -> 2

getNumSwitchStates(ssa) ==
  CASE ssa = "rea"  -> 4
    [] OTHER        -> 2

\* the value reset() of the referenced analyzer gives _internalState
SSA_reset_internalState(ssa) ==
  CASE ssa = "pbr"  -> PBR_STATE_I_UNDEFINED
    [] ssa = "pbdl" -> PBDL_STATE_I_UNDEFINED
    [] ssa = "rea"  -> REA_STATE_I_UNDEFINED
    [] OTHER        -> 0

\* _SSA->getAnalyzerState(switchState), reading millis() as current
getAnalyzerState(current, switchState) ==
  CASE _SSA = "pbr"  -> PBR_getAnalyzerState(current, switchState, _longStartMillis,
                                             _repeatMillis, _internalState, _procStart)
    [] _SSA = "pbdl" -> PBDL_getAnalyzerState(current, switchState, _maxDoubleMillis,
                                              _minLongMillis, _endLongByTime,
                                              _internalState, _procStart)
    [] _SSA = "rea"  -> REA_getAnalyzerState(switchState, _internalState, _procStart)
    [] OTHER         -> SSA_getAnalyzerState(switchState, _internalState, _procStart)

\* the start of the sequence after a step of the push button analyzers from
\* the internal state st0 to st at the clock value current: a sequence
\* starts where the analyzer enters its state ON (start of a new sequence,
\* or a second push that came too late) and ends where it enters OFF
seqStartAfter(ssa, st0, st, current, start) ==
  CASE ssa = "pbr" ->
         IF st = PBR_STATE_I_OFF THEN 0
         ELSE IF st = PBR_STATE_I_ON /\ st0 # PBR_STATE_I_ON THEN current
         ELSE start
    [] ssa = "pbdl" ->
         IF st = PBDL_STATE_I_OFF THEN 0
         ELSE IF st = PBDL_STATE_I_ON /\ st0 # PBDL_STATE_I_ON THEN current
         ELSE start
    [] OTHER -> start

(***************************************************************************)
(* Switch: construction.                                                   *)
(***************************************************************************)
\* slip: the upper limit is not enforced
init_numState_noUpperClamp(numState) ==
  IF numState < MinNumState THEN MinNumState ELSE numState

\* Switch::init, the clamp of numState
init_numState(numState) ==
  IF numState < MinNumState THEN MinNumState
  ELSE IF numState > MaxNumState THEN MaxNumState
  ELSE numState

\* Switch::init, the mapping table: identity when enabled, else the 0 pointer
init_mapValues(enableMapping, n) ==
  IF enableMapping THEN [i \in 0..(n - 1) |-> i] ELSE <<>>

\* the numState the constructors hand to init
ctor_numState(c) ==
  IF c.ctor = "numState" THEN c.numState
  ELSE IF c.ssa # "null" THEN getNumAnalyzerStates(c.ssa)
  ELSE 2

\* the readCycleMillis the constructors hand to init
ctor_readCycleMillis(c) ==
  IF c.ctor = "numState" THEN c.readCycleMillis
  ELSE IF c.ssa # "null" THEN getReadCycleMillis(c.ssa, PBR_init(c.repeatMillis),
                                                 c.maxDoubleMillis, c.minLongMillis)
  ELSE 0

\* no hasChanged() called from loop() is under way
IdleCall == [pc |-> "idle", current |-> 0, rawState |-> 0, state |-> 0,
             entry |-> SW_STATE_UNDEFINED, preempted |-> FALSE]

(***************************************************************************)
(* The constructions explored.                                             *)
(***************************************************************************)
NumStateArgs == {1, 2, 3, 65}
ReadCycleArgs == {0, 3}
DebounceArgs == {0, 2}
\* (longStartMillis, repeatMillis) of PushButtonRepeatAnalyzer
PBRArgs == {<<0, 0>>, <<2, 0>>, <<2, 1>>, <<2001, 1>>}
\* (maxDoubleMillis, minLongMillis, endLongByTime) of PushButtonDoubleLongAnalyzer
PBDLArgs == {<<0, 0, FALSE>>, <<0, 2, TRUE>>, <<3, 0, FALSE>>, <<3, 2, TRUE>>,
             <<4, 2, FALSE>>}
\* levels of an analog pin
AnalogLevels == {0, 400, 1023}

NoSsaArgs == [longStartMillis |-> 0, repeatMillis |-> 0, maxDoubleMillis |-> 0,
              minLongMillis |-> 0, endLongByTime |-> FALSE]

BaseConfigs ==
       \* Switch(numState, enableMapping, inputPin, readCycleMillis, ...)
       { [ctor |-> "numState", ssa |-> "null", port |-> "digital", numState |-> n,
          readCycleMillis |-> rc] @@ NoSsaArgs
         : n \in NumStateArgs, rc \in ReadCycleArgs }
  \cup \* AnalogSwitch(numState, enableMapping, analogInputPin, readCycleMillis, invertRaw)
       { [ctor |-> "numState", ssa |-> "null", port |-> "analog", numState |-> 3,
          readCycleMillis |-> rc] @@ NoSsaArgs : rc \in ReadCycleArgs }
  \cup \* Switch(ssa, ...) with a 0 pointer or the base class analyzer
       { [ctor |-> "ssa", ssa |-> k, port |-> "digital", numState |-> 0,
          readCycleMillis |-> 0] @@ NoSsaArgs : k \in {"null", "default"} }
  \cup \* Switch(&PushButtonRepeatAnalyzer(longStartMillis, repeatMillis), ...)
       { [ctor |-> "ssa", ssa |-> "pbr", port |-> "digital", numState |-> 0,
          readCycleMillis |-> 0, longStartMillis |-> a[1], repeatMillis |-> a[2],
          maxDoubleMillis |-> 0, minLongMillis |-> 0, endLongByTime |-> FALSE]
         : a \in PBRArgs }
  \cup \* Switch(&PushButtonDoubleLongAnalyzer(maxDoubleMillis, minLongMillis, endLongByTime), ...)
       { [ctor |-> "ssa", ssa |-> "pbdl", port |-> "digital", numState |-> 0,
          readCycleMillis |-> 0, longStartMillis |-> 0, repeatMillis |-> 0,
          maxDoubleMillis |-> a[1], minLongMillis |-> a[2], endLongByTime |-> a[3]]
         : a \in PBDLArgs }
  \cup \* RotaryEncoder(&RotaryEncoderAnalyzer(), ...)
       { [ctor |-> "ssa", ssa |-> "rea", port |-> "dual", numState |-> 0,
          readCycleMillis |-> 0] @@ NoSsaArgs }

Configs ==
  { b @@ [debounceMillis |-> d, invertRaw |-> inv, enableMapping |-> m]
    : b \in BaseConfigs, d \in DebounceArgs, inv \in BOOLEAN, m \in BOOLEAN }

\* the state the constructors leave, for a construction c at clock value t
Constructed(c, t) ==
  /\ now = t /\ bootTime = t
  /\ pinA = 0 /\ pinB = 0
  /\ ctor = c.ctor
  /\ numStateArg = ctor_numState(c)
  /\ port = c.port
  /\ _SSA = c.ssa
  /\ _longStartMillis = (IF c.ssa = "pbr" THEN PBR_init(c.longStartMillis) ELSE 0)
  /\ _repeatMillis = (IF c.ssa = "pbr" THEN PBR_init(c.repeatMillis) ELSE 0)
  /\ _maxDoubleMillis = c.maxDoubleMillis
  /\ _minLongMillis = c.minLongMillis
  /\ _endLongByTime = c.endLongByTime
  /\ _internalState = SSA_reset_internalState(c.ssa)
  /\ _procStart = 0
  /\ _currentState = SW_STATE_UNDEFINED
  /\ _previousState = SW_STATE_UNDEFINED
  /\ _lastRawState = SW_STATE_UNDEFINED
  /\ _readCycleMillis = ctor_readCycleMillis(c)
  /\ _debounceMillis = c.debounceMillis
  /\ _lastReadMillis = 0
  /\ _debouncing = FALSE
  /\ _invertRaw = c.invertRaw
  /\ _numState = init_numState(ctor_numState(c))
  /\ _mapValues = init_mapValues(c.enableMapping, init_numState(ctor_numState(c)))
  /\ lastOp = "init" /\ ret = FALSE /\ portReads = 0 /\ ssaSteps = 0
  /\ seqStart = 0
  /\ loopCall = IdleCall
  /\ reported = 0

StartTimes == {0}

Init == \E c \in Configs : \E t \in StartTimes : Constructed(c, t)

(***************************************************************************)
(* Switch: reading the port.                                               *)
(***************************************************************************)
\* Switch::getRawState, overridden by AnalogSwitch and RotaryEncoder
getRawState ==
  CASE port = "dual"   -> (pinA + (IF pinB = 0 THEN 0 ELSE 2)) % ByteMod
    [] port = "analog" -> ((pinA * _numState) \div AnalogRange) % ByteMod
    [] OTHER           -> pinA

\* slip: the inversion works on the number of states the engine returns
numRawStates_returned == _numState

\* the number of raw states the inversion works on
numRawStates == IF _SSA # "null" THEN getNumSwitchStates(_SSA) ELSE _numState

\* slip: the inversion as a flip of a two-state value
invertRawState_flip(n, rawState) == (1 - rawState) % ByteMod

\* rawState = (...) - 1 - rawState, in byte arithmetic
invertRawState(n, rawState) == (n - 1 - rawState) % ByteMod

\* the raw state hasChanged() works with after the optional inversion
readRawState ==
  IF _invertRaw THEN invertRawState(numRawStates, getRawState) ELSE getRawState

(***************************************************************************)
(* Switch::hasChanged                                                      *)
(***************************************************************************)
\* slip: the distance of the two clock values as signed numbers
TimeDiff_signed(current, lastRead) ==
  IF current >= lastRead THEN current - lastRead ELSE lastRead - current

\* timeDiff = current - _lastReadMillis, unsigned long
TimeDiff(current, lastRead) == (current - lastRead) % ClockMod

\* slip: the wait times compared with <= (one millisecond too long)
waiting_inclusive(timeDiff) ==
  IF _debouncing THEN timeDiff <= _debounceMillis
  ELSE _readCycleMillis > 0 /\ timeDiff <= _readCycleMillis

\* slip: the debounce wait dropped, only the read cycle is waited for
waiting_cadenceOnly(timeDiff) ==
  _readCycleMillis > 0 /\ timeDiff < _readCycleMillis

\* the wait times: debouncing, else the read cycle
waiting(timeDiff) ==
  IF _debouncing THEN timeDiff < _debounceMillis
  ELSE _readCycleMillis > 0 /\ timeDiff < _readCycleMillis

\* slip: a differing raw state starts the phase again when the phase ends
startDebouncing_again(rawState) ==
  _debounceMillis > 0 /\ _lastRawState # rawState

\* slip: no debouncing phase as long as no raw state was taken over
startDebouncing_notFirst(rawState) ==
  /\ ~_debouncing /\ _debounceMillis > 0
  /\ _lastRawState # SW_STATE_UNDEFINED /\ _lastRawState # rawState

\* slip: only the first raw state after init() or reset() is debounced
startDebouncing_firstOnly(rawState) ==
  /\ ~_debouncing /\ _debounceMillis > 0
  /\ _lastRawState = SW_STATE_UNDEFINED /\ _lastRawState # rawState

\* start of the debouncing phase
startDebouncing(rawState) ==
  ~_debouncing /\ _debounceMillis > 0 /\ _lastRawState # rawState

\* whether getAnalyzerState of the referenced analyzer reads millis()
readsClock == _SSA \in {"pbr", "pbdl"}

Elapsed(t) == (t - bootTime) % ClockMod

\* hasChanged() returns at the wait times without a read
hasChanged_wait ==
  /\ ret' = FALSE /\ portReads' = 0 /\ ssaSteps' = 0
  /\ UNCHANGED <<now, engineState, ssaState, seqStart>>

\* slip: the analyzer is handed the raw state before the debounce check
hasChanged_debounce_stepsAnalyzer(current) ==
  /\ _debouncing' = TRUE
  /\ _lastReadMillis' = current
  /\ ret' = FALSE /\ portReads' = 1
  /\ IF _SSA # "null"
     THEN LET r == getAnalyzerState(current, readRawState)
          IN  _internalState' = r.st /\ _procStart' = r.ps /\ ssaSteps' = 1
     ELSE UNCHANGED ssaState /\ ssaSteps' = 0
  /\ UNCHANGED <<now, _currentState, _previousState, _lastRawState, seqStart>>

\* hasChanged() reads and starts the debouncing phase
hasChanged_debounce(current) ==
  /\ _debouncing' = TRUE
  /\ _lastReadMillis' = current
  /\ ret' = FALSE /\ portReads' = 1 /\ ssaSteps' = 0
  /\ UNCHANGED <<now, _currentState, _previousState, _lastRawState, ssaState, seqStart>>

\* slip: every raw state taken over is reported as a change
hasChanged_update_always(state) ==
  /\ _previousState' = (IF state # _currentState THEN _currentState ELSE _previousState)
  /\ _currentState' = state
  /\ ret' = TRUE

\* slip: the two assignments in the wrong order
hasChanged_update_swapped(state) ==
  IF state # _currentState
  THEN /\ _currentState' = state
       /\ _previousState' = state
       /\ ret' = TRUE
  ELSE /\ UNCHANGED <<_currentState, _previousState>>
       /\ ret' = FALSE

\* the comparison with _currentState and the two assignments
hasChanged_update(state) ==
  IF state # _currentState
  THEN /\ _previousState' = _currentState
       /\ _currentState' = state
       /\ ret' = TRUE
  ELSE /\ UNCHANGED <<_currentState, _previousState>>
       /\ ret' = FALSE

\* slip: the analyzer works only on a raw state that differs from the one
\* taken over before
hasChanged_commit_onEdge(current, rawState) ==
  /\ _debouncing' = FALSE
  /\ _lastRawState' = rawState
  /\ _lastReadMillis' = current
  /\ portReads' = 1
  /\ IF _SSA # "null" /\ rawState # _lastRawState
     THEN \E skew \in 0..(IF readsClock THEN MaxSkew ELSE 0) :
            /\ Elapsed(now) + skew <= MaxTime
            /\ now' = (now + skew) % ClockMod
            /\ LET r == getAnalyzerState((now + skew) % ClockMod, rawState)
               IN  /\ _internalState' = r.st
                   /\ _procStart' = r.ps
                   /\ seqStart' = seqStartAfter(_SSA, _internalState, r.st,
                                                (now + skew) % ClockMod, seqStart)
                   /\ hasChanged_update(r.out)
            /\ ssaSteps' = 1
     ELSE /\ hasChanged_update(IF _SSA # "null" THEN _currentState ELSE rawState)
          /\ ssaSteps' = 0
          /\ UNCHANGED <<now, ssaState, seqStart>>

\* hasChanged() reads, takes the raw state over and lets the analyzer work
hasChanged_commit(current, rawState) ==
  /\ _debouncing' = FALSE
  /\ _lastRawState' = rawState
  /\ _lastReadMillis' = current
  /\ portReads' = 1
  /\ IF _SSA # "null"
     THEN \E skew \in 0..(IF readsClock THEN MaxSkew ELSE 0) :
            /\ Elapsed(now) + skew <= MaxTime
            /\ now' = (now + skew) % ClockMod
            /\ LET r == getAnalyzerState((now + skew) % ClockMod, rawState)
               IN  /\ _internalState' = r.st
                   /\ _procStart' = r.ps
                   /\ seqStart' = seqStartAfter(_SSA, _internalState, r.st,
                                                (now + skew) % ClockMod, seqStart)
                   /\ hasChanged_update(r.out)
            /\ ssaSteps' = 1
     ELSE /\ hasChanged_update(rawState)
          /\ ssaSteps' = 0
          /\ UNCHANGED <<now, ssaState, seqStart>>

\* the count of the calls that returned true, after a call returned changed
reportedAfter(changed) ==
  IF changed /\ reported < 2 THEN reported + 1 ELSE reported

\* one hasChanged() from its call to its return
hasChanged_run ==
  LET current == now
      timeDiff == TimeDiff(current, _lastReadMillis)
  IN  /\ lastOp' = "hasChanged"
      /\ UNCHANGED <<bootTime, pinA, pinB, construction, ssaConfig, _mapValues>>
      /\ IF waiting(timeDiff) THEN hasChanged_wait
         ELSE IF startDebouncing(readRawState) THEN hasChanged_debounce(current)
         ELSE hasChanged_commit(current, readRawState)
      /\ reported' = reportedAfter(ret')

hasChanged == hasChanged_run /\ UNCHANGED loopCall

(***************************************************************************)
(* Switch: the other operations.                                           *)
(***************************************************************************)
getState == _currentState

getPrevState == _previousState

\* the lookup shared by getMappedState and getPrevMappedState
mapped(state) ==
  IF _mapValues = <<>> \/ state = SW_STATE_UNDEFINED THEN state ELSE _mapValues[state]

getMappedState == mapped(_currentState)

\* slip: the previous state is looked up with the current state
getPrevMappedState_ofCurrent == mapped(_currentState)

getPrevMappedState == mapped(_previousState)

\* slip: state and mappingValue exchanged in the assignment
setMapping_table_swapped(table, state, mappingValue) ==
  IF table = <<>> \/ state >= _numState THEN table
  ELSE [i \in DOMAIN table |-> IF i = mappingValue THEN state ELSE table[i]]

\* the table setMapping(state, mappingValue) leaves
setMapping_table(table, state, mappingValue) ==
  IF table = <<>> \/ state >= _numState THEN table
  ELSE [table EXCEPT ![state] = mappingValue]

\* arguments of setMapping explored
MapStateArgs == {1, 64}
MapValueArgs == {7, 8}

\* Switch::setMapping
setMappingCall(state, mappingValue) ==
  /\ _mapValues' = setMapping_table(_mapValues, state, mappingValue)
  /\ lastOp' = "setMapping" /\ ret' = FALSE /\ portReads' = 0 /\ ssaSteps' = 0
  /\ UNCHANGED reported
  /\ UNCHANGED <<env, construction, ssaConfig, ssaState, engineState, seqStart,
                 loopCall>>

setMapping ==
  \E state \in MapStateArgs, mappingValue \in MapValueArgs :
    setMappingCall(state, mappingValue)

\* slip: reset() of the analyzers forgets the start of the sequence
SSA_reset_keepsProcStart(ssa, st, ps) ==
  CASE ssa \in {"pbr", "pbdl", "rea"} -> [st |-> SSA_reset_internalState(ssa), ps |-> ps]
    [] OTHER                          -> [st |-> st, ps |-> ps]

\* the fields reset() of the referenced analyzer leaves
SSA_reset(ssa, st, ps) ==
  CASE ssa \in {"pbr", "pbdl"} -> [st |-> SSA_reset_internalState(ssa), ps |-> 0]
    [] ssa = "rea"             -> [st |-> SSA_reset_internalState(ssa), ps |-> ps]
    [] OTHER                   -> [st |-> st, ps |-> ps]

\* slip: reset() leaves _previousState as it is
reset_keepsPrevious ==
  /\ _currentState' = SW_STATE_UNDEFINED
  /\ UNCHANGED _previousState
  /\ _lastRawState' = SW_STATE_UNDEFINED
  /\ _lastReadMillis' = 0
  /\ _debouncing' = FALSE
  /\ LET r == SSA_reset(_SSA, _internalState, _procStart)
     IN  _internalState' = r.st /\ _procStart' = r.ps
  /\ seqStart' = 0
  /\ UNCHANGED loopCall
  /\ lastOp' = "reset" /\ ret' = FALSE /\ portReads' = 0 /\ ssaSteps' = 0
  /\ reported' = 0
  /\ UNCHANGED <<env, construction, ssaConfig, _mapValues>>

\* Switch::reset
reset ==
  /\ _currentState' = SW_STATE_UNDEFINED
  /\ _previousState' = SW_STATE_UNDEFINED
  /\ _lastRawState' = SW_STATE_UNDEFINED
  /\ _lastReadMillis' = 0
  /\ _debouncing' = FALSE
  /\ LET r == SSA_reset(_SSA, _internalState, _procStart)
     IN  _internalState' = r.st /\ _procStart' = r.ps
  /\ seqStart' = 0
  /\ UNCHANGED loopCall
  /\ lastOp' = "reset" /\ ret' = FALSE /\ portReads' = 0 /\ ssaSteps' = 0
  /\ reported' = 0
  /\ UNCHANGED <<env, construction, ssaConfig, _mapValues>>

(***************************************************************************)
(* The environment: the clock advances, the pins change their level.       *)
(***************************************************************************)
Tick ==
  /\ Elapsed(now) < MaxTime
  /\ now' = (now + 1) % ClockMod
  /\ lastOp' = "tick" /\ ret' = FALSE /\ portReads' = 0 /\ ssaSteps' = 0
  /\ UNCHANGED reported
  /\ UNCHANGED <<bootTime, pinA, pinB, construction, ssaConfig, ssaState,
                 engineState, _mapValues, seqStart, loopCall>>

PinLevels == IF port = "analog" THEN AnalogLevels ELSE {0, 1}

PinChange ==
  /\ \E a \in PinLevels, b \in (IF port = "dual" THEN {0, 1} ELSE {0}) :
       /\ <<a, b>> # <<pinA, pinB>>
       /\ pinA' = a /\ pinB' = b
  /\ lastOp' = "pin" /\ ret' = FALSE /\ portReads' = 0 /\ ssaSteps' = 0
  /\ UNCHANGED reported
  /\ UNCHANGED <<now, bootTime, construction, ssaConfig, ssaState,
                 engineState, _mapValues, seqStart, loopCall>>

Next == hasChanged \/ setMapping \/ reset \/ Tick \/ PinChange

Spec == Init /\ [][Next]_vars

(***************************************************************************)
(* Notions the properties below share.                                     *)
(***************************************************************************)
\* the step is a call of hasChanged()
PollStep == lastOp' = "hasChanged"

\* elapsed time since the last read, as the next hasChanged() will see it
dt == (now - _lastReadMillis) % ClockMod

\* the next hasChanged() is suppressed by the debounce wait or by the cadence
Gated ==
  \/ _debouncing /\ dt < _debounceMillis
  \/ ~_debouncing /\ _readCycleMillis > 0 /\ dt < _readCycleMillis

\* everything the program owns is left as it is
ProgramUnchanged ==
  UNCHANGED <<construction, ssaConfig, ssaState, engineState, _mapValues>>

(***************************************************************************)
(* C1: hasChanged() returns true if and only if this call changed          *)
(* _currentState; a call that is suppressed by the cadence or the debounce *)
(* wait, or that enters the debouncing phase, returns false and leaves     *)
(* _currentState and _previousState as they are.                           *)
(***************************************************************************)
C1_TrueIffStateChanged ==
  [][PollStep =>
       /\ (ret' <=> _currentState' # _currentState)
       /\ (Gated \/ (~_debouncing /\ _debouncing')
             => /\ ~ret'
                /\ _currentState' = _currentState
                /\ _previousState' = _previousState)]_vars

\* a call reported a change away from a defined state
C1_Witness ==
  /\ lastOp = "hasChanged" /\ ret
  /\ _previousState # SW_STATE_UNDEFINED

(***************************************************************************)
(* C2: after a hasChanged() that returns true getPrevState() is the value  *)
(* getState() had right before the call; _previousState and _currentState  *)
(* are written only together, in such a call, or both set to UNDEFINED by  *)
(* reset().                                                                *)
(***************************************************************************)
C2_PreviousIsPriorCurrent ==
  [][/\ (PollStep /\ ret' => getPrevState' = getState)
     /\ (_previousState' # _previousState \/ _currentState' # _currentState
           => \/ /\ PollStep /\ ret'
                 /\ _previousState' = _currentState
                 /\ _currentState' # _currentState
              \/ /\ lastOp' = "reset"
                 /\ _previousState' = SW_STATE_UNDEFINED
                 /\ _currentState' = SW_STATE_UNDEFINED)]_vars

\* an analyzer's output replaced a defined state, which became the previous one
C2_Witness ==
  /\ lastOp = "hasChanged" /\ ret /\ ssaSteps = 1
  /\ _previousState # SW_STATE_UNDEFINED
  /\ _currentState # _previousState

(***************************************************************************)
(* C3: gating.  While debouncing, a hasChanged() with                      *)
(* dt < _debounceMillis is suppressed and the cadence is not consulted;    *)
(* while not debouncing, with _readCycleMillis > 0, a hasChanged() with    *)
(* dt < _readCycleMillis is suppressed.  A suppressed call returns false,  *)
(* reads no port and leaves _lastReadMillis and all other state of the     *)
(* engine and the analyzer as it is; every other call reads the port once  *)
(* and sets _lastReadMillis to the clock value.                            *)
(***************************************************************************)
C3_Gating ==
  [][PollStep =>
       IF Gated
       THEN ~ret' /\ portReads' = 0 /\ ssaSteps' = 0 /\ now' = now /\ ProgramUnchanged
       ELSE portReads' = 1 /\ _lastReadMillis' = now]_vars

\* a call was suppressed by the cadence alone, some time after the last read
C3_Witness ==
  /\ lastOp = "hasChanged" /\ portReads = 0
  /\ ~_debouncing /\ _readCycleMillis > 0
  /\ _lastRawState # SW_STATE_UNDEFINED
  /\ 0 < dt /\ dt < _readCycleMillis

(***************************************************************************)
(* C4: fixed-delay single-resample debounce (_debounceMillis > 0).  The    *)
(* first read that differs from _lastRawState while not debouncing starts  *)
(* the debouncing phase: the call returns false and sets _lastReadMillis,  *)
(* and leaves _lastRawState, _currentState, _previousState and the         *)
(* analyzer as they are.  During the phase no read is taken until the      *)
(* first call with dt >= _debounceMillis; that call reads once, takes      *)
(* whatever raw state it reads over into _lastRawState, hands it on        *)
(* (to the analyzer, else to the comparison with _currentState) and does   *)
(* not start the phase again.                                              *)
(***************************************************************************)
C4_SingleResampleDebounce ==
  [][PollStep =>
       /\ (~Gated /\ ~_debouncing /\ _debounceMillis > 0 /\ readRawState # _lastRawState
             => /\ _debouncing' /\ ~ret'
                /\ portReads' = 1 /\ ssaSteps' = 0
                /\ _lastReadMillis' = now
                /\ UNCHANGED <<_lastRawState, _currentState, _previousState, ssaState>>)
       /\ (_debouncing /\ dt < _debounceMillis
             => portReads' = 0 /\ _debouncing' /\ UNCHANGED <<engineState, ssaState>>)
       /\ (_debouncing /\ dt >= _debounceMillis
             => /\ portReads' = 1
                /\ ~_debouncing'
                /\ _lastRawState' = readRawState
                /\ IF _SSA = "null"
                   THEN _currentState' = readRawState
                   ELSE ssaSteps' = 1)]_vars

\* without analyzer: a second change got through the debouncing phase
C4_Witness ==
  /\ lastOp = "hasChanged" /\ ret /\ portReads = 1
  /\ _SSA = "null" /\ _debounceMillis > 0
  /\ ~_debouncing
  /\ _previousState # SW_STATE_UNDEFINED
  /\ _lastRawState = _currentState

(***************************************************************************)
(* C5 as stated: once _debouncing is set it is cleared only by a           *)
(* hasChanged() whose elapsed time since the start of the phase is         *)
(* >= _debounceMillis; no operation ends the phase earlier.                *)
(***************************************************************************)
C5_NoCancellation ==
  [][_debouncing /\ ~_debouncing' => PollStep /\ dt >= _debounceMillis]_vars

(***************************************************************************)
(* C5 as amended: once _debouncing is set it is cleared only by a          *)
(* hasChanged() whose elapsed time since the start of the phase is         *)
(* >= _debounceMillis, or by reset(), which clears it at any time;         *)
(* setMapping(), the clock, the pins and every hasChanged() inside the     *)
(* window leave it set.                                                    *)
(***************************************************************************)
C5_ClearedByTimeOrReset ==
  [][_debouncing /\ ~_debouncing'
       => \/ PollStep /\ dt >= _debounceMillis
          \/ lastOp' = "reset"]_vars

\* a debouncing phase is pending after setMapping() and after a suppressed call
C5_Witness ==
  /\ _debouncing
  /\ lastOp \in {"setMapping", "hasChanged"}
  /\ portReads = 0
  /\ 0 < dt /\ dt < _debounceMillis

(***************************************************************************)
(* C6: reset() restores the baseline of the construction from every        *)
(* reachable state: _currentState, _previousState and _lastRawState are    *)
(* UNDEFINED, _debouncing is cleared, _lastReadMillis is 0, the analyzer   *)
(* is in its undefined state with _procStart 0; the configuration and the  *)
(* mapping table are left as they are.  The engine and analyzer state      *)
(* after reset() is the state some construction with the same              *)
(* configuration leaves, so both answer every later sequence of clock      *)
(* values and raw reads alike.                                             *)
(***************************************************************************)
C6_ResetRestoresBaseline ==
  [][lastOp' = "reset" =>
       /\ _currentState' = SW_STATE_UNDEFINED
       /\ _previousState' = SW_STATE_UNDEFINED
       /\ _lastRawState' = SW_STATE_UNDEFINED
       /\ ~_debouncing'
       /\ _lastReadMillis' = 0
       /\ _procStart' = 0
       /\ (_SSA = "pbr" => _internalState' = PBR_STATE_I_UNDEFINED)
       /\ (_SSA = "pbdl" => _internalState' = PBDL_STATE_I_UNDEFINED)
       /\ (_SSA = "rea" => _internalState' = REA_STATE_I_UNDEFINED)
       /\ UNCHANGED <<construction, ssaConfig, _mapValues>>
       /\ \E c \in Configs : \E t \in StartTimes :
            LET fresh == [cs |-> SW_STATE_UNDEFINED, ps |-> SW_STATE_UNDEFINED,
                          lr |-> SW_STATE_UNDEFINED, lm |-> 0, db |-> FALSE,
                          st |-> SSA_reset_internalState(c.ssa), pr |-> 0]
            IN  /\ c.ctor = ctor /\ c.ssa = _SSA /\ c.port = port
                /\ init_numState(ctor_numState(c)) = _numState
                /\ ctor_readCycleMillis(c) = _readCycleMillis
                /\ c.debounceMillis = _debounceMillis /\ c.invertRaw = _invertRaw
                /\ fresh = [cs |-> _currentState', ps |-> _previousState',
                            lr |-> _lastRawState', lm |-> _lastReadMillis',
                            db |-> _debouncing', st |-> _internalState',
                            pr |-> _procStart']]_vars

\* reset() was called in the middle of a push sequence with a changed mapping
C6_Witness ==
  /\ lastOp = "reset"
  /\ _SSA \in {"pbr", "pbdl"}
  /\ _mapValues # <<>> /\ _mapValues[1] # 1
  /\ pinA = 1 /\ ~_invertRaw
  /\ now > 2

(***************************************************************************)
(* C7: with _invertRaw every raw state read is remapped as                 *)
(* numRawStates - 1 - raw before the debounce comparison, the take-over    *)
(* and the analysis, numRawStates being the raw alphabet size of the       *)
(* analyzer, or _numState without analyzer; the remap keeps every raw      *)
(* state of [0, numRawStates) in that range and is its own inverse.        *)
(* Without _invertRaw the raw state is used as read.                       *)
(***************************************************************************)
C7_symbol ==
  LET n == IF _SSA = "null" THEN _numState
           ELSE IF _SSA = "rea" THEN 4 ELSE 2
  IN  IF _invertRaw THEN n - 1 - getRawState ELSE getRawState

C7_InversionAcrossAlphabet ==
  [][/\ \A r \in 0..(numRawStates - 1) :
          /\ invertRawState(numRawStates, r) \in 0..(numRawStates - 1)
          /\ invertRawState(numRawStates, r) = numRawStates - 1 - r
          /\ invertRawState(numRawStates, invertRawState(numRawStates, r)) = r
     /\ (PollStep /\ portReads' = 1
           => /\ _debouncing' <=> /\ ~_debouncing /\ _debounceMillis > 0
                                  /\ C7_symbol # _lastRawState
              /\ ~_debouncing' => _lastRawState' = C7_symbol
              /\ ~_debouncing' /\ _SSA \in {"null", "default"}
                    => _currentState' = C7_symbol)]_vars

\* both pins of an inverted rotary encoder read low and were taken over as AB
C7_Witness ==
  /\ lastOp = "hasChanged" /\ portReads = 1 /\ ~_debouncing
  /\ _invertRaw /\ port = "dual"
  /\ pinA = 0 /\ pinB = 0
  /\ _lastRawState = REA_SWSTATE_AB

(***************************************************************************)
(* C8: mapping round trip.  With mapping enabled, after                    *)
(* setMapping(s, v) with s < _numState, getMappedState() returns v         *)
(* whenever getState() = s and getPrevMappedState() returns v whenever     *)
(* getPrevState() = s, until s is passed to setMapping again: a table      *)
(* entry changes only in a setMapping call for its state.  A state never   *)
(* passed to setMapping maps to itself, the table being the identity       *)
(* after construction.  For the UNDEFINED state the mapped getters         *)
(* return UNDEFINED, and with mapping disabled they return the state.      *)
(***************************************************************************)
C8_lookup(state) ==
  IF _mapValues = <<>> \/ state = SW_STATE_UNDEFINED THEN state ELSE _mapValues[state]

C8_MappingRoundTrip ==
  [][/\ getMappedState = C8_lookup(getState)
     /\ getPrevMappedState = C8_lookup(getPrevState)
     /\ (_currentState = SW_STATE_UNDEFINED => getMappedState = SW_STATE_UNDEFINED)
     /\ (_previousState = SW_STATE_UNDEFINED => getPrevMappedState = SW_STATE_UNDEFINED)
     /\ (_currentState = SW_STATE_UNDEFINED => getPrevMappedState = SW_STATE_UNDEFINED)
     /\ (lastOp = "init" /\ _mapValues # <<>>
           => /\ DOMAIN _mapValues = 0..(_numState - 1)
              /\ \A i \in DOMAIN _mapValues : _mapValues[i] = i)
     /\ \A s \in MapStateArgs, v \in MapValueArgs :
          setMappingCall(s, v) /\ _mapValues # <<>> /\ s < _numState
            => /\ (getState' = s => getMappedState' = v)
               /\ (getPrevState' = s => getPrevMappedState' = v)
     /\ (_mapValues # <<>>
           => \A i \in DOMAIN _mapValues :
                _mapValues'[i] # _mapValues[i]
                  => \E v \in MapValueArgs : setMappingCall(i, v))
     /\ (_mapValues = <<>> => _mapValues' = <<>>)]_vars

\* the current and the previous state differ in their mapping: one was passed
\* to setMapping, the other still maps to itself
C8_Witness ==
  /\ _mapValues # <<>>
  /\ _currentState = 0 /\ _previousState = 1
  /\ getMappedState = 0 /\ getPrevMappedState = 8
  /\ lastOp = "hasChanged"

(***************************************************************************)
(* C9: setMapping(state, value) changes nothing when mapping is disabled   *)
(* or state >= _numState; otherwise it overwrites the one table entry of   *)
(* that state and leaves every other entry, _currentState,                 *)
(* _previousState, _lastRawState, _debouncing and _lastReadMillis (and     *)
(* the analyzer) as they are.                                              *)
(***************************************************************************)
C9_SetMappingFrame ==
  [][\A s \in MapStateArgs, v \in MapValueArgs :
       setMappingCall(s, v)
         => /\ UNCHANGED <<construction, ssaConfig, ssaState, engineState>>
            /\ IF _mapValues = <<>> \/ s >= _numState
               THEN _mapValues' = _mapValues
               ELSE /\ DOMAIN _mapValues' = DOMAIN _mapValues
                    /\ _mapValues'[s] = v
                    /\ \A i \in DOMAIN _mapValues :
                         i # s => _mapValues'[i] = _mapValues[i]]_vars

\* an entry was overwritten a second time while a debouncing phase is pending
C9_Witness ==
  /\ lastOp = "setMapping"
  /\ _mapValues # <<>> /\ _mapValues[1] = 7 /\ _mapValues[0] = 0
  /\ _debouncing /\ _currentState = 1

(***************************************************************************)
(* C10: _numState is clamped at construction, never rejected: a numState   *)
(* below 2 gives 2, above 64 gives 64, a value of [2, 64] is kept; the     *)
(* construction with an analyzer hands over the number of states the       *)
(* analyzer declares, with a 0 pointer it hands over 2.  _numState is in   *)
(* [2, 64] in every reachable state.                                       *)
(***************************************************************************)
C10_NumStateClamped ==
  /\ _numState \in 2..64
  /\ (numStateArg < 2 => _numState = 2)
  /\ (numStateArg > 64 => _numState = 64)
  /\ (numStateArg \in 2..64 => _numState = numStateArg)
  /\ (ctor = "ssa" /\ _SSA \in {"pbr", "pbdl"} => numStateArg = 4)
  /\ (ctor = "ssa" /\ _SSA = "rea" => numStateArg = 3)
  /\ (ctor = "ssa" /\ _SSA = "default" => numStateArg = 2)
  /\ (ctor = "ssa" /\ _SSA = "null" => numStateArg = 2 /\ _numState = 2)

\* an engine asked for 65 states works with 64
C10_Witness ==
  /\ numStateArg = 65 /\ _numState = 64
  /\ lastOp = "hasChanged" /\ ret

(***************************************************************************)
(* C11: every hasChanged() reads the port at most once and calls           *)
(* getAnalyzerState() at most once; the analyzer is called only by the     *)
(* call that takes the raw state over into _lastRawState (an eligible call *)
(* that does not start the debouncing phase), never by a call suppressed   *)
(* by a wait time and never by the call that starts the debouncing phase;  *)
(* without a call of the analyzer its fields stay as they are.             *)
(***************************************************************************)
C11_OneReadOneStep ==
  [][PollStep =>
       /\ portReads' \in {0, 1}
       /\ ssaSteps' \in {0, 1}
       /\ (ssaSteps' = 1 =>
             /\ portReads' = 1
             /\ ~Gated
             /\ ~_debouncing'
             /\ _lastRawState' = readRawState
             /\ _lastReadMillis' = now)
       /\ (Gated => portReads' = 0 /\ ssaSteps' = 0)
       /\ (~_debouncing /\ _debouncing' => ssaSteps' = 0)
       /\ (ssaSteps' = 0 => UNCHANGED ssaState)
    ]_vars

\* an analyzer was stepped by a call that ended a debouncing phase
C11_Witness ==
  /\ lastOp = "hasChanged" /\ ssaSteps = 1 /\ portReads = 1
  /\ _debounceMillis > 0 /\ ~_debouncing
  /\ _SSA = "pbdl" /\ _internalState = PBDL_STATE_I_ON
(***************************************************************************)
(* Notions the properties of the analyzers share.  A step of the analyzer  *)
(* is a hasChanged() that calls getAnalyzerState(): the raw state handed   *)
(* over is the one read from the port, the clock value the analyzer reads  *)
(* is the one the step leaves in now, and the state it returns is the one  *)
(* the step leaves in _currentState.                                       *)
(***************************************************************************)
AnalyzerStep == PollStep /\ ssaSteps' = 1

\* the push button is seen pushed by the step
stepOn == readRawState = SW_STATE_DEFAULT_ON

\* the state getAnalyzerState() returns in the step
stepOut == _currentState'

\* the time since the start of the push, at the step
stepElapsed == (now' - _procStart) % ClockMod

(***************************************************************************)
(* C12: PushButtonRepeatAnalyzer with longStartMillis > 0: a push whose    *)
(* steps with the button held all come before longStartMillis have         *)
(* elapsed, followed by a step with the button released, gives exactly one *)
(* SINGLE, returned by the release step, and no CONT_A or CONT_B: the step *)
(* that starts the push and the held steps return OFF, the release step    *)
(* returns SINGLE and ends the push, and no other step returns SINGLE.     *)
(* (The internal state ON says that no step of the push returned CONT_A or *)
(* CONT_B so far.)                                                         *)
(***************************************************************************)
C12_ShortPushSingle ==
  [][AnalyzerStep /\ _SSA = "pbr" /\ _longStartMillis > 0 =>
       /\ (_internalState \in {PBR_STATE_I_OFF, PBR_STATE_I_UNDEFINED} =>
             /\ stepOut = PBR_STATE_E_OFF
             /\ _internalState' = (IF stepOn THEN PBR_STATE_I_ON ELSE PBR_STATE_I_OFF)
             /\ (stepOn => _procStart' = now'))
       /\ (_internalState = PBR_STATE_I_ON /\ stepOn /\ stepElapsed < _longStartMillis =>
             /\ stepOut = PBR_STATE_E_OFF
             /\ _internalState' = PBR_STATE_I_ON
             /\ _procStart' = _procStart)
       /\ (_internalState = PBR_STATE_I_ON /\ ~stepOn =>
             /\ stepOut = PBR_STATE_E_SINGLE
             /\ _internalState' = PBR_STATE_I_OFF)
       /\ (stepOut = PBR_STATE_E_SINGLE =>
             _internalState = PBR_STATE_I_ON /\ ~stepOn)
       /\ (stepOut \in {PBR_STATE_E_CONT_A, PBR_STATE_E_CONT_B} =>
             _internalState' \in {PBR_STATE_I_CONT_A, PBR_STATE_I_CONT_B})
    ]_vars

\* a push that started after the clock had advanced was released before
\* longStartMillis and reported as SINGLE
C12_Witness ==
  /\ _SSA = "pbr" /\ _longStartMillis = 2
  /\ lastOp = "hasChanged" /\ ssaSteps = 1 /\ ret
  /\ _currentState = PBR_STATE_E_SINGLE /\ _previousState = PBR_STATE_E_OFF
  /\ _internalState = PBR_STATE_I_OFF
  /\ Elapsed(now) = MaxTime
(***************************************************************************)
(* C13: PushButtonRepeatAnalyzer with longStartMillis = L > 0 and          *)
(* repeatMillis = R > 0, the button kept pushed: the first held step at an *)
(* elapsed time >= L returns CONT_A; every later held step, at the elapsed *)
(* time e, returns CONT_A if ((e - L) mod 2R) < R and CONT_B otherwise,    *)
(* until the release; the release step returns OFF, never SINGLE, and the  *)
(* analyzer is back in its state OFF.                                      *)
(***************************************************************************)
C13_ContinuousAlternates ==
  [][AnalyzerStep /\ _SSA = "pbr" /\ _longStartMillis > 0 /\ _repeatMillis > 0 =>
       LET inCont == _internalState \in {PBR_STATE_I_CONT_A, PBR_STATE_I_CONT_B}
           phaseA == ((stepElapsed - _longStartMillis) % (2 * _repeatMillis))
                       < _repeatMillis
       IN  /\ (_internalState = PBR_STATE_I_ON /\ stepOn
                 /\ stepElapsed >= _longStartMillis =>
                 /\ stepOut = PBR_STATE_E_CONT_A
                 /\ _internalState' = PBR_STATE_I_CONT_A
                 /\ _procStart' = _procStart)
           /\ (inCont /\ stepOn =>
                 /\ stepElapsed >= _longStartMillis
                 /\ stepOut = (IF phaseA THEN PBR_STATE_E_CONT_A ELSE PBR_STATE_E_CONT_B)
                 /\ _internalState' = (IF phaseA THEN PBR_STATE_I_CONT_A
                                                 ELSE PBR_STATE_I_CONT_B)
                 /\ _procStart' = _procStart)
           /\ (inCont /\ ~stepOn =>
                 /\ stepOut = PBR_STATE_E_OFF
                 /\ _internalState' = PBR_STATE_I_OFF)
    ]_vars

\* the held button came back to CONT_A after CONT_B, two repeat periods
\* after the continuous push was recognised
C13_Witness ==
  /\ _SSA = "pbr" /\ _longStartMillis = 2 /\ _repeatMillis = 1
  /\ lastOp = "hasChanged" /\ ssaSteps = 1 /\ ret
  /\ _currentState = PBR_STATE_E_CONT_A /\ _previousState = PBR_STATE_E_CONT_B
  /\ _internalState = PBR_STATE_I_CONT_A
  /\ (now - _procStart) % ClockMod = _longStartMillis + 2 * _repeatMillis
(***************************************************************************)
(* C14: PushButtonRepeatAnalyzer with repeatMillis = 0 or                  *)
(* longStartMillis = 0 (the default construction included): no step        *)
(* returns CONT_A or CONT_B, and the release step of every push returns    *)
(* SINGLE, however long the button was held.                               *)
(***************************************************************************)
C14_ZeroDisablesContinuous ==
  [][AnalyzerStep /\ _SSA = "pbr" /\ (_repeatMillis = 0 \/ _longStartMillis = 0) =>
       /\ stepOut \notin {PBR_STATE_E_CONT_A, PBR_STATE_E_CONT_B}
       /\ (_internalState # PBR_STATE_I_UNDEFINED /\ _lastRawState = SW_STATE_DEFAULT_ON
             /\ ~stepOn => stepOut = PBR_STATE_E_SINGLE)
    ]_vars

C17_DoubleCompletedInWindow ==
  [][AnalyzerStep /\ _SSA = "pbdl" /\ stepOut = PBDL_STATE_E_DOUBLE =>
       (now' - seqStart) % ClockMod < _maxDoubleMillis
    ]_vars
(***************************************************************************)
(* C18 as stated: PushButtonDoubleLongAnalyzer with endLongByTime and      *)
(* minLongMillis > 0: during one hold that starts a sequence exactly one   *)
(* step returns LONG, and it does so while the button is still held; every *)
(* later held step and the release step return OFF.                        *)
(***************************************************************************)
C18_LongWhileHeld ==
  [][AnalyzerStep /\ _SSA = "pbdl" /\ _endLongByTime /\ _minLongMillis > 0 =>
       /\ (stepOut = PBDL_STATE_E_LONG => stepOn)
       /\ (_internalState = PBDL_STATE_I_ON /\ ~stepOn => stepOut # PBDL_STATE_E_LONG)
       /\ (_internalState = PBDL_STATE_I_LONGTIMEOUT => stepOut = PBDL_STATE_E_OFF)
    ]_vars

(***************************************************************************)
(* C18, amended: with endLongByTime and minLongMillis > 0, during one hold *)
(* that starts a sequence exactly one step returns LONG: the first step at *)
(* which the time out of the long push has fired, which is a held step or, *)
(* when no step was taken while the button was held beyond the threshold,  *)
(* the release step itself.  LONG is returned only in the state ON, not    *)
(* before minLongMillis have elapsed and at the latest by the first step   *)
(* after more than minLongMillis; from then on every held step and the     *)
(* step that sees the button released return OFF, the latter ending the    *)
(* sequence silently; a hold that went beyond the threshold gives no       *)
(* SINGLE and no DOUBLE.                                                   *)
(***************************************************************************)
C18_LongOncePerHold ==
  [][AnalyzerStep /\ _SSA = "pbdl" /\ _endLongByTime /\ _minLongMillis > 0 =>
       /\ (stepOut = PBDL_STATE_E_LONG =>
             /\ _internalState = PBDL_STATE_I_ON
             /\ stepElapsed >= _minLongMillis
             /\ _internalState' = PBDL_STATE_I_LONGTIMEOUT)
       /\ (_internalState = PBDL_STATE_I_ON /\ stepElapsed > _minLongMillis =>
             stepOut = PBDL_STATE_E_LONG)
       /\ (_internalState = PBDL_STATE_I_ON /\ stepOn /\ stepElapsed < _minLongMillis =>
             stepOut = PBDL_STATE_E_OFF /\ _internalState' = PBDL_STATE_I_ON)
       /\ (_internalState = PBDL_STATE_I_LONGTIMEOUT =>
             /\ stepOut = PBDL_STATE_E_OFF
             /\ _internalState' = (IF stepOn THEN PBDL_STATE_I_LONGTIMEOUT
                                             ELSE PBDL_STATE_I_OFF))
       /\ (stepOut \in {PBDL_STATE_E_SINGLE, PBDL_STATE_E_DOUBLE} =>
             /\ _internalState # PBDL_STATE_I_LONGTIMEOUT
             /\ ~(_internalState = PBDL_STATE_I_ON /\ stepElapsed > _minLongMillis))
    ]_vars

\* LONG was returned by the step that saw the button released
C18_Witness ==
  /\ _SSA = "pbdl" /\ _endLongByTime /\ _minLongMillis = 2
  /\ lastOp = "hasChanged" /\ ssaSteps = 1 /\ ret
  /\ _currentState = PBDL_STATE_E_LONG /\ _previousState = PBDL_STATE_E_OFF
  /\ _internalState = PBDL_STATE_I_LONGTIMEOUT
  /\ _lastRawState = SW_STATE_DEFAULT_OFF

(***************************************************************************)
(* C19: PushButtonDoubleLongAnalyzer with endLongByTime: the long push is  *)
(* reported at minLongMillis while the button is held: a held step in the  *)
(* state ON at an elapsed time >= minLongMillis returns LONG, a step at    *)
(* exactly minLongMillis included.                                         *)
(***************************************************************************)
C19_LongAtThreshold ==
  [][AnalyzerStep /\ _SSA = "pbdl" /\ _endLongByTime /\ _minLongMillis > 0
       /\ _internalState = PBDL_STATE_I_ON /\ stepOn
       /\ stepElapsed >= _minLongMillis =>
       stepOut = PBDL_STATE_E_LONG
    ]_vars

C21_ZeroSwitchesOff ==
  [][AnalyzerStep /\ _SSA = "pbdl" =>
       /\ (_maxDoubleMillis = 0 =>
             /\ _internalState' \notin {PBDL_STATE_I_DBLOFF, PBDL_STATE_I_DBL2ON}
             /\ stepOut # PBDL_STATE_E_DOUBLE
             /\ (_internalState = PBDL_STATE_I_ON /\ ~stepOn
                   /\ ~(_minLongMillis > 0 /\ stepElapsed > _minLongMillis) =>
                   stepOut = PBDL_STATE_E_SINGLE /\ _internalState' = PBDL_STATE_I_OFF))
       /\ (_minLongMillis = 0 =>
             /\ _internalState' # PBDL_STATE_I_LONGTIMEOUT
             /\ stepOut # PBDL_STATE_E_LONG)
       /\ (_maxDoubleMillis = 0 /\ _minLongMillis = 0 =>
             /\ stepOut = (IF _internalState = PBDL_STATE_I_ON /\ ~stepOn
                           THEN PBDL_STATE_E_SINGLE ELSE PBDL_STATE_E_OFF)
             /\ _internalState' = (IF stepOn THEN PBDL_STATE_I_ON ELSE PBDL_STATE_I_OFF))
    ]_vars

\* with the long push analysis alone switched off, a push held for the
\* whole run was released and reported as SINGLE
C21_Witness ==
  /\ _SSA = "pbdl" /\ _maxDoubleMillis = 3 /\ _minLongMillis = 0
  /\ lastOp = "hasChanged" /\ ssaSteps = 1 /\ ret
  /\ _currentState = PBDL_STATE_E_SINGLE /\ _previousState = PBDL_STATE_E_OFF
  /\ _internalState = PBDL_STATE_I_OFF /\ seqStart = 0
  /\ Elapsed(now) = MaxTime /\ _debounceMillis = 0
(***************************************************************************)
(* C22: RotaryEncoderAnalyzer, for every sequence of raw states: a         *)
(* direction is returned only by a step with the raw state OFF while a     *)
(* turn is open (RIGHT_A or LEFT_B), and it is the direction of the open   *)
(* turn; a turn is opened by an A (right) or a B (left) seen in the state  *)
(* OFF; while the turn is open every A, B or AB is ignored: the step       *)
(* returns OFF and leaves the open turn as it is; the step with the raw    *)
(* state OFF closes the turn, so each turn gives exactly one direction.    *)
(***************************************************************************)
C22_OneDirectionPerTurn ==
  [][AnalyzerStep /\ _SSA = "rea" =>
       LET sym == readRawState
           closed == _internalState \in {REA_STATE_I_OFF, REA_STATE_I_UNDEFINED}
           open == _internalState \in {REA_STATE_I_RIGHT_A, REA_STATE_I_LEFT_B}
       IN  /\ sym \in {REA_SWSTATE_OFF, REA_SWSTATE_A, REA_SWSTATE_B, REA_SWSTATE_AB}
           /\ closed \/ open
           /\ (closed =>
                 /\ stepOut = REA_STATE_E_OFF
                 /\ _internalState' = (CASE sym = REA_SWSTATE_A -> REA_STATE_I_RIGHT_A
                                         [] sym = REA_SWSTATE_B -> REA_STATE_I_LEFT_B
                                         [] OTHER -> REA_STATE_I_OFF))
           /\ (open /\ sym # REA_SWSTATE_OFF =>
                 /\ stepOut = REA_STATE_E_OFF
                 /\ _internalState' = _internalState)
           /\ (open /\ sym = REA_SWSTATE_OFF =>
                 /\ stepOut = (IF _internalState = REA_STATE_I_RIGHT_A
                               THEN REA_STATE_E_DIRECTION_R ELSE REA_STATE_E_DIRECTION_L)
                 /\ _internalState' = REA_STATE_I_OFF)
           /\ (stepOut \in {REA_STATE_E_DIRECTION_R, REA_STATE_E_DIRECTION_L} =>
                 open /\ sym = REA_SWSTATE_OFF)
    ]_vars

\* a turn to the left was opened, and closed and reported at the end of
\* the run
C22_Witness ==
  /\ _SSA = "rea" /\ port = "dual"
  /\ lastOp = "hasChanged" /\ ssaSteps = 1 /\ ret
  /\ _currentState = REA_STATE_E_DIRECTION_L /\ _previousState = REA_STATE_E_OFF
  /\ _internalState = REA_STATE_I_OFF /\ _lastRawState = REA_SWSTATE_OFF
  /\ Elapsed(now) = MaxTime
(***************************************************************************)
(* C23: RotaryEncoder::getRawState gives pinA + 2 * pinB, a value in       *)
(* 0..3 (OFF both low, A only A high, B only B high, AB both high); with   *)
(* the inversion of the engine over the four raw states of the analyzer,   *)
(* an encoder that pulls its pins low presents both pins high as OFF, only *)
(* pin A low as A, only pin B low as B and both low as AB.  Stated for the *)
(* raw state a hasChanged() takes over and hands to the analyzer.          *)
(***************************************************************************)
C23_DualPinSymbol ==
  [][PollStep /\ port = "dual" /\ portReads' = 1 /\ ~_debouncing' =>
       /\ getRawState = pinA + 2 * pinB
       /\ getRawState \in 0..3
       /\ ssaSteps' = 1
       /\ _lastRawState' =
            (IF ~_invertRaw THEN pinA + 2 * pinB
             ELSE CASE pinA = 1 /\ pinB = 1 -> REA_SWSTATE_OFF
                    [] pinA = 0 /\ pinB = 1 -> REA_SWSTATE_A
                    [] pinA = 1 /\ pinB = 0 -> REA_SWSTATE_B
                    [] pinA = 0 /\ pinB = 0 -> REA_SWSTATE_AB)
       /\ (_internalState \in {REA_STATE_I_OFF, REA_STATE_I_UNDEFINED} /\ _invertRaw
             /\ pinA = 0 /\ pinB = 1 => _internalState' = REA_STATE_I_RIGHT_A)
    ]_vars

\* with the inversion, pin A low and pin B high were taken over as A and
\* opened a turn to the right
C23_Witness ==
  /\ port = "dual" /\ _SSA = "rea" /\ _invertRaw
  /\ lastOp = "hasChanged" /\ portReads = 1 /\ ssaSteps = 1
  /\ pinA = 0 /\ pinB = 1
  /\ _lastRawState = REA_SWSTATE_A
  /\ _internalState = REA_STATE_I_RIGHT_A
(***************************************************************************)
(* The engines built on an analyzer, over a range of thresholds: the       *)
(* constructor asks the analyzer for its read cycle and hasChanged() keeps *)
(* to it.                                                                  *)
(***************************************************************************)
HintMillis == {0, 1, 19, 20, 400, 2000, 6000}

HintConfigs ==
  { b @@ [debounceMillis |-> 0, invertRaw |-> FALSE, enableMapping |-> FALSE] :
    b \in
         { [ctor |-> "ssa", ssa |-> "pbr", port |-> "digital", numState |-> 0,
            readCycleMillis |-> 0, longStartMillis |-> l, repeatMillis |-> r,
            maxDoubleMillis |-> 0, minLongMillis |-> 0, endLongByTime |-> FALSE]
           : l \in HintMillis, r \in HintMillis }
    \cup { [ctor |-> "ssa", ssa |-> "pbdl", port |-> "digital", numState |-> 0,
            readCycleMillis |-> 0, longStartMillis |-> 0, repeatMillis |-> 0,
            maxDoubleMillis |-> d, minLongMillis |-> l, endLongByTime |-> TRUE]
           : d \in HintMillis, l \in HintMillis }
    \cup { [ctor |-> "ssa", ssa |-> k, port |-> "digital", numState |-> 0,
            readCycleMillis |-> 0] @@ NoSsaArgs : k \in {"null", "default"} }
    \cup { [ctor |-> "ssa", ssa |-> "rea", port |-> "dual", numState |-> 0,
            readCycleMillis |-> 0] @@ NoSsaArgs } }

HintInit == \E c \in HintConfigs : Constructed(c, 0)

HintNext == hasChanged \/ Tick \/ PinChange

HintSpec == HintInit /\ [][HintNext]_vars

\* the thresholds of the referenced analyzer that are switched on
enabledWindows ==
  {_longStartMillis, _repeatMillis, _maxDoubleMillis, _minLongMillis} \ {0}

(***************************************************************************)
(* C24 as stated: for every analyzer and every choice of its thresholds    *)
(* the read cycle it asks for is at least 1 ms and smaller than its        *)
(* shortest threshold that is switched on.                                 *)
(***************************************************************************)
C24_HintFinerThanWindows ==
  ctor = "ssa" /\ _SSA # "null" =>
    /\ _readCycleMillis >= 1
    /\ \A w \in enabledWindows : _readCycleMillis < w

(***************************************************************************)
(* C24, amended: the read cycle is about a twentieth of one threshold of   *)
(* the analyzer.  PushButtonRepeatAnalyzer asks for max(repeatMillis / 20, *)
(* 1): at least 1 ms, and smaller than repeatMillis from repeatMillis = 2  *)
(* on, whatever longStartMillis is.  PushButtonDoubleLongAnalyzer asks for *)
(* the twentieth of the larger of its two thresholds, as a byte: 0 when    *)
(* both are below 20 ms, and smaller than the larger threshold whenever    *)
(* one is switched on.  The base class asks for 0 and the                  *)
(* RotaryEncoderAnalyzer for 2.  The engine takes the value over as its    *)
(* _readCycleMillis.                                                       *)
(***************************************************************************)
C24_HintFromOneThreshold ==
  ctor = "ssa" =>
    CASE _SSA = "pbr" ->
           /\ _readCycleMillis = Max(_repeatMillis \div 20, 1)
           /\ _readCycleMillis >= 1
           /\ (_repeatMillis >= 2 => _readCycleMillis < _repeatMillis)
      [] _SSA = "pbdl" ->
           LET larger == Max(_maxDoubleMillis, _minLongMillis)
           IN  /\ _readCycleMillis = (larger \div 20) % ByteMod
               /\ (larger < 20 => _readCycleMillis = 0)
               /\ (larger > 0 => _readCycleMillis < larger)
      [] _SSA = "rea" -> _readCycleMillis = 2
      [] OTHER -> _readCycleMillis = 0

\* an engine on PushButtonDoubleLongAnalyzer(400, 1, ...) was asked at the
\* end of the run and still waited for its read cycle of 20 ms, far
\* beyond minLongMillis
C24_Witness ==
  /\ _SSA = "pbdl" /\ _maxDoubleMillis = 400 /\ _minLongMillis = 1
  /\ _readCycleMillis = 20
  /\ lastOp = "hasChanged" /\ portReads = 0 /\ ~_debouncing
  /\ Elapsed(now) = MaxTime
(***************************************************************************)
(* hasChanged() called from loop() and from an interrupt routine on the    *)
(* same Switch.  The call from loop() advances statement by statement; the *)
(* interrupt routine runs between two of its statements and is itself not  *)
(* interrupted, so its hasChanged() runs from call to return.              *)
(***************************************************************************)
\* what a statement of the call from loop() leaves alone
loop_frame ==
  /\ portReads' = 0 /\ ssaSteps' = 0
  /\ UNCHANGED <<env, construction, ssaConfig, _mapValues, seqStart>>

\* the call goes on with the statement at position pc
loop_goto(pc, call) ==
  /\ loopCall' = [call EXCEPT !.pc = pc]
  /\ lastOp' = "loopStep" /\ ret' = FALSE
  /\ UNCHANGED reported

\* the call returns result; its local variables are gone
loop_return(result) ==
  /\ loopCall' = [loopCall EXCEPT !.pc = "idle", !.current = 0, !.rawState = 0,
                                  !.state = 0]
  /\ lastOp' = "loopReturn" /\ ret' = result
  /\ reported' = reportedAfter(result)

\* the call, millis() and the wait times
loop_begin ==
  /\ loopCall.pc = "idle"
  /\ loop_frame
  /\ UNCHANGED <<engineState, ssaState>>
  /\ IF waiting(TimeDiff(now, _lastReadMillis))
     THEN /\ loopCall' = [loopCall EXCEPT !.entry = _currentState]
          /\ lastOp' = "loopReturn" /\ ret' = FALSE
          /\ UNCHANGED reported
     ELSE loop_goto("read", [loopCall EXCEPT !.current = now, !.entry = _currentState])

\* rawState = getRawState(); _lastReadMillis = current; the inversion
loop_read ==
  /\ loopCall.pc = "read"
  /\ loop_frame
  /\ _lastReadMillis' = loopCall.current
  /\ loop_goto("debounce", [loopCall EXCEPT !.rawState = readRawState])
  /\ UNCHANGED <<_currentState, _previousState, _lastRawState, _debouncing, ssaState>>

\* the start of the debouncing phase, or the raw state is taken over and
\* handed to the analyzer
loop_debounce ==
  /\ loopCall.pc = "debounce"
  /\ loop_frame
  /\ UNCHANGED <<_currentState, _previousState, _lastReadMillis>>
  /\ IF startDebouncing(loopCall.rawState)
     THEN /\ _debouncing' = TRUE
          /\ loop_return(FALSE)
          /\ UNCHANGED <<_lastRawState, ssaState>>
     ELSE /\ _debouncing' = FALSE
          /\ _lastRawState' = loopCall.rawState
          /\ IF _SSA # "null"
             THEN LET r == getAnalyzerState(now, loopCall.rawState)
                  IN  /\ _internalState' = r.st
                      /\ _procStart' = r.ps
                      /\ loop_goto("compare", [loopCall EXCEPT !.state = r.out])
             ELSE /\ UNCHANGED ssaState
                  /\ loop_goto("compare", [loopCall EXCEPT !.state = loopCall.rawState])

\* slip: the state is taken over without the comparison
loop_compare_always ==
  /\ loopCall.pc = "compare"
  /\ loop_frame
  /\ UNCHANGED <<engineState, ssaState>>
  /\ loop_goto("assignPrevious", loopCall)

\* if(state != _currentState)
loop_compare ==
  /\ loopCall.pc = "compare"
  /\ loop_frame
  /\ UNCHANGED <<engineState, ssaState>>
  /\ IF loopCall.state # _currentState
     THEN loop_goto("assignPrevious", loopCall)
     ELSE loop_return(FALSE)

\* _previousState = _currentState
loop_assignPrevious ==
  /\ loopCall.pc = "assignPrevious"
  /\ loop_frame
  /\ _previousState' = _currentState
  /\ loop_goto("assignCurrent", loopCall)
  /\ UNCHANGED <<_currentState, _lastRawState, _lastReadMillis, _debouncing, ssaState>>

\* _currentState = state; return true
loop_assignCurrent ==
  /\ loopCall.pc = "assignCurrent"
  /\ loop_frame
  /\ _currentState' = loopCall.state
  /\ loop_return(TRUE)
  /\ UNCHANGED <<_previousState, _lastRawState, _lastReadMillis, _debouncing, ssaState>>

\* the interrupt routine calls hasChanged(), inside a call from loop() or not
interruptCall ==
  /\ hasChanged_run
  /\ loopCall' = [loopCall EXCEPT !.preempted = @ \/ loopCall.pc # "idle"]

\* Switch(2, false, INPUT_PIN, readCycleMillis, debounceMillis, invertRaw)
PreemptConfigs ==
  { [ctor |-> "numState", ssa |-> "null", port |-> "digital", numState |-> 2,
     readCycleMillis |-> rc, debounceMillis |-> d, invertRaw |-> inv,
     enableMapping |-> FALSE] @@ NoSsaArgs
    : rc \in ReadCycleArgs, d \in DebounceArgs, inv \in BOOLEAN }

PreemptInit == \E c \in PreemptConfigs : Constructed(c, 0)

PreemptNext ==
  \/ loop_begin \/ loop_read \/ loop_debounce \/ loop_compare
  \/ loop_assignPrevious \/ loop_assignCurrent
  \/ interruptCall \/ Tick \/ PinChange

PreemptSpec == PreemptInit /\ [][PreemptNext]_vars

(***************************************************************************)
(* C25: hasChanged() has to be serialized by the caller.  As long as every *)
(* call on a Switch has run from its call to its return before the next    *)
(* one started, whatever the order of the calls from loop() and from the   *)
(* interrupt routine, the states keep their relation between two calls:    *)
(* _previousState differs from _currentState unless both are undefined,    *)
(* and a call from loop() that returned true changed _currentState and     *)
(* left the state it found in _previousState.  (The witness is the other   *)
(* half: with a call of the interrupt routine between the statements of a  *)
(* call from loop(), both calls report the same change and                 *)
(* _previousState = _currentState with both defined.)                      *)
(***************************************************************************)
C25_SerializedCallsKeepRelation ==
  loopCall.pc = "idle" /\ ~loopCall.preempted =>
    /\ (_previousState = _currentState => _currentState = SW_STATE_UNDEFINED)
    /\ (lastOp = "loopReturn" /\ ret =>
          /\ _currentState # loopCall.entry
          /\ _previousState = loopCall.entry)

\* a call from loop() that was interrupted returned true although the
\* call of the interrupt routine had reported the change already:
\* _currentState is the state it found, and _previousState equals it
C25_Witness ==
  /\ loopCall.pc = "idle" /\ loopCall.preempted
  /\ lastOp = "loopReturn" /\ ret
  /\ _currentState # SW_STATE_UNDEFINED
  /\ _previousState = _currentState
(***************************************************************************)
(* Engines constructed shortly before millis() wraps around.               *)
(***************************************************************************)
WrapConfigs ==
  { [ctor |-> "numState", ssa |-> "null", port |-> "digital", numState |-> 2,
     readCycleMillis |-> rc, debounceMillis |-> d, invertRaw |-> inv,
     enableMapping |-> FALSE] @@ NoSsaArgs
    : rc \in ReadCycleArgs, d \in DebounceArgs, inv \in BOOLEAN }

WrapInit == \E c \in WrapConfigs : Constructed(c, ClockMod - WrapLead)

WrapSpec == WrapInit /\ [][Next]_vars

\* _lastReadMillis holds the clock value of a read (not the 0 that the
\* construction and reset() leave)
hasRead == _debouncing \/ _lastRawState # SW_STATE_UNDEFINED

\* the time since the last read on a clock that does not wrap around
sinceRead == Elapsed(now) - Elapsed(_lastReadMillis)

(***************************************************************************)
(* C26: the time since the last read is computed by unsigned subtraction,  *)
(* modulo the range of millis(): when the clock wraps around between the   *)
(* last read and a hasChanged(), the call computes the same time           *)
(* difference and takes the same decision on the read cycle and on the     *)
(* debounce wait as with a clock that does not wrap around.                *)
(***************************************************************************)
C26_WrapSafeGating ==
  [][PollStep /\ hasRead =>
       /\ TimeDiff(now, _lastReadMillis) = sinceRead
       /\ (portReads' = 0 <=>
             IF _debouncing THEN sinceRead < _debounceMillis
             ELSE _readCycleMillis > 0 /\ sinceRead < _readCycleMillis)
    ]_vars

\* the clock wrapped around inside a debouncing phase and a hasChanged()
\* after the wrap still waited for the end of the phase
C26_Witness ==
  /\ bootTime = ClockMod - WrapLead
  /\ now < _lastReadMillis
  /\ _debouncing /\ _debounceMillis = 2
  /\ lastOp = "hasChanged" /\ portReads = 0
(***************************************************************************)
(* C27: PushButtonDoubleLongAnalyzer tests the time outs before the        *)
(* changes of the raw state: a step in DBLOFF or DBL2ON after more than    *)
(* maxDoubleMillis returns SINGLE whatever the raw state is; if the button *)
(* is pushed at that step (a second push that comes late or is still       *)
(* held), the same step starts a new sequence in the state ON with the     *)
(* start of the push at the clock value of the step; if it is released,    *)
(* the analyzer is back in OFF.                                            *)
(***************************************************************************)
C27_TimeoutBeforeEdges ==
  [][AnalyzerStep /\ _SSA = "pbdl" /\ _maxDoubleMillis > 0
       /\ _internalState \in {PBDL_STATE_I_DBLOFF, PBDL_STATE_I_DBL2ON}
       /\ stepElapsed > _maxDoubleMillis =>
       /\ stepOut = PBDL_STATE_E_SINGLE
       /\ IF stepOn
          THEN /\ _internalState' = PBDL_STATE_I_ON
               /\ _procStart' = now'
               /\ seqStart' = now'
          ELSE /\ _internalState' = PBDL_STATE_I_OFF
               /\ _procStart' = 0
    ]_vars

\* a second push that was held beyond the window: SINGLE was returned
\* and a new sequence started with the button pushed
C27_Witness ==
  /\ _SSA = "pbdl" /\ _maxDoubleMillis = 3
  /\ lastOp = "hasChanged" /\ ssaSteps = 1 /\ ret
  /\ _currentState = PBDL_STATE_E_SINGLE
  /\ _internalState = PBDL_STATE_I_ON /\ _lastRawState = SW_STATE_DEFAULT_ON
  /\ _procStart = now /\ seqStart = now
(***************************************************************************)
(* C28: a Switch constructed on the base class SwitchStateAnalyzer, or on  *)
(* a 0 pointer, behaves like a Switch constructed without analyzer for 2   *)
(* states and the read cycle 0.  All three constructions start from the    *)
(* same fields and every hasChanged() of theirs gives the return value and *)
(* the fields that twoStatePoll computes from the fields before the call,  *)
(* the clock, the pin, _debounceMillis and _invertRaw alone: so for the    *)
(* same clock values and reads they return the same and leave the same     *)
(* getState() and getPrevState() after every call.                         *)
(***************************************************************************)
\* constructed as Switch(2, ..., 0, ...), Switch(&SwitchStateAnalyzer(), ...)
\* or Switch((SwitchStateAnalyzer*)0, ...)
twoStateConstruction ==
  \/ ctor = "ssa" /\ _SSA \in {"null", "default"}
  \/ ctor = "numState" /\ port = "digital" /\ numStateArg = 2 /\ _readCycleMillis = 0

\* hasChanged() of the Switch without analyzer, 2 states, read cycle 0
twoStatePoll ==
  LET timeDiff == (now - _lastReadMillis) % ClockMod
      rawState == IF _invertRaw THEN 1 - pinA ELSE pinA
  IN  IF _debouncing /\ timeDiff < _debounceMillis
      THEN [ret |-> FALSE, fields |-> engineState]
      ELSE IF ~_debouncing /\ _debounceMillis > 0 /\ _lastRawState # rawState
      THEN [ret |-> FALSE,
            fields |-> <<_currentState, _previousState, _lastRawState, now, TRUE>>]
      ELSE IF rawState # _currentState
      THEN [ret |-> TRUE, fields |-> <<rawState, _currentState, rawState, now, FALSE>>]
      ELSE [ret |-> FALSE, fields |-> <<_currentState, _previousState, rawState, now, FALSE>>]

C28_PassThroughEquivalent ==
  [][twoStateConstruction =>
       /\ _numState = 2 /\ _readCycleMillis = 0
       /\ (lastOp = "init" =>
             engineState = <<SW_STATE_UNDEFINED, SW_STATE_UNDEFINED,
                             SW_STATE_UNDEFINED, 0, FALSE>>)
       /\ (PollStep =>
             /\ ret' = twoStatePoll.ret
             /\ engineState' = twoStatePoll.fields
             /\ getState' = twoStatePoll.fields[1]
             /\ getPrevState' = twoStatePoll.fields[2])
    ]_vars

\* a Switch on the base class analyzer, with inversion and debouncing,
\* reported its second change
C28_Witness ==
  /\ ctor = "ssa" /\ _SSA = "default" /\ _invertRaw /\ _debounceMillis = 2
  /\ lastOp = "hasChanged" /\ ret /\ ssaSteps = 1
  /\ _currentState = SW_STATE_DEFAULT_OFF /\ _previousState = SW_STATE_DEFAULT_ON
(***************************************************************************)
(* C29: with the port giving raw states below the number of raw states     *)
(* (getRawState of Switch, AnalogSwitch and RotaryEncoder in every state   *)
(* explored), the raw state stays below it after the inversion, and        *)
(* _currentState and _previousState are each SW_STATE_UNDEFINED or below   *)
(* _numState, for the Switch without analyzer and for each analyzer; so    *)
(* with a mapping table getMappedState() and getPrevMappedState() look up  *)
(* an index the table has.                                                 *)
(***************************************************************************)
stateInRange(state) ==
  state = SW_STATE_UNDEFINED \/ state \in 0..(_numState - 1)

lookupInTable(state) ==
  _mapValues # <<>> /\ state # SW_STATE_UNDEFINED => state \in DOMAIN _mapValues

C29_StatesInRange ==
  getRawState \in 0..(numRawStates - 1) =>
    /\ readRawState \in 0..(numRawStates - 1)
    /\ stateInRange(_currentState) /\ stateInRange(_previousState)
    /\ lookupInTable(_currentState) /\ lookupInTable(_previousState)

\* the highest state of the push button double long analyzer is the current
\* state, an other one the previous state, and the table is looked up
C29_Witness ==
  /\ _SSA = "pbdl" /\ _mapValues # <<>>
  /\ _currentState = PBDL_STATE_E_LONG /\ _currentState = _numState - 1
  /\ _previousState = PBDL_STATE_E_OFF
  /\ getMappedState = _mapValues[PBDL_STATE_E_LONG]
  /\ getPrevMappedState = _mapValues[PBDL_STATE_E_OFF]
(***************************************************************************)
(* C30: as long as no raw state was taken over since the construction or   *)
(* the last reset() (_lastRawState is SW_STATE_UNDEFINED), _currentState   *)
(* and _previousState are SW_STATE_UNDEFINED, and a hasChanged() then      *)
(*  - that takes the raw state over returns true, whatever the analyzer    *)
(*    and the raw state, leaves a defined _currentState and                *)
(*    SW_STATE_UNDEFINED as _previousState; with _debounceMillis > 0 it    *)
(*    ends a debouncing phase, at least _debounceMillis after the read     *)
(*    that started the phase;                                              *)
(*  - that reads the port outside a debouncing phase, with                 *)
(*    _debounceMillis > 0, starts the debouncing phase, returns false and  *)
(*    takes nothing over.                                                  *)
(***************************************************************************)
\* the hasChanged() of this step read the port and took the raw state over
commitStep == PollStep /\ portReads' = 1 /\ ~_debouncing'

C30_FirstCommitReportsChange ==
  [][PollStep /\ _lastRawState = SW_STATE_UNDEFINED =>
       /\ _currentState = SW_STATE_UNDEFINED
       /\ _previousState = SW_STATE_UNDEFINED
       /\ (commitStep =>
             /\ ret'
             /\ _currentState' # SW_STATE_UNDEFINED
             /\ _previousState' = SW_STATE_UNDEFINED
             /\ _lastRawState' # SW_STATE_UNDEFINED
             /\ (_debounceMillis > 0 =>
                   /\ _debouncing
                   /\ (now - _lastReadMillis) % ClockMod >= _debounceMillis))
       /\ (portReads' = 1 /\ _debounceMillis > 0 /\ ~_debouncing =>
             /\ _debouncing' /\ ~ret'
             /\ _lastReadMillis' = now
             /\ UNCHANGED <<_currentState, _previousState, _lastRawState>>)
    ]_vars

\* the rotary encoder reported its first state after the debouncing phase
C30_Witness ==
  /\ _SSA = "rea" /\ _debounceMillis = 2
  /\ lastOp = "hasChanged" /\ ret /\ portReads = 1 /\ ~_debouncing
  /\ _previousState = SW_STATE_UNDEFINED
  /\ _currentState = REA_STATE_E_OFF
  /\ _lastRawState # SW_STATE_UNDEFINED
(***************************************************************************)
(* C31: a Switch without analyzer and with _debounceMillis > 0.            *)
(*  - _currentState equals _lastRawState, before and after every step;     *)
(*  - every hasChanged() that returns true ends a debouncing phase, at     *)
(*    least _debounceMillis after the read that started the phase;         *)
(*  - the read that ends a debouncing phase and finds the raw state        *)
(*    _lastRawState again returns false and leaves _currentState and       *)
(*    _previousState as they are.                                          *)
(***************************************************************************)
C31_DebouncedChangesOnly ==
  [][_SSA = "null" /\ _debounceMillis > 0 =>
       /\ _currentState = _lastRawState
       /\ _currentState' = _lastRawState'
       /\ (PollStep /\ ret' =>
             /\ _debouncing /\ ~_debouncing'
             /\ (now - _lastReadMillis) % ClockMod >= _debounceMillis)
       /\ (PollStep /\ _debouncing /\ portReads' = 1
             /\ readRawState = _lastRawState =>
             /\ ~ret' /\ ~_debouncing'
             /\ UNCHANGED <<_currentState, _previousState>>)
    ]_vars

\* the Switch without analyzer reported its second change, from the highest
\* of 3 states, after the debouncing phase
C31_Witness ==
  /\ _SSA = "null" /\ _debounceMillis = 2 /\ _numState = 3
  /\ lastOp = "hasChanged" /\ ret /\ portReads = 1 /\ ~_debouncing
  /\ _previousState = 2 /\ _currentState # SW_STATE_UNDEFINED
  /\ _currentState = _lastRawState /\ _lastReadMillis = now
(***************************************************************************)
(* C32: _currentState differs from _previousState unless both are          *)
(* SW_STATE_UNDEFINED; a defined _currentState becomes SW_STATE_UNDEFINED  *)
(* by reset() only; _previousState is SW_STATE_UNDEFINED exactly as long   *)
(* as fewer than two hasChanged() calls have returned true since the       *)
(* construction or the last reset().                                       *)
(***************************************************************************)
statesDiffer ==
  _currentState = _previousState =>
    _currentState = SW_STATE_UNDEFINED /\ _previousState = SW_STATE_UNDEFINED

previousAfterTwo == (_previousState = SW_STATE_UNDEFINED) <=> (reported < 2)

C32_StatesDifferPreviousAfterTwo ==
  [][/\ statesDiffer /\ statesDiffer'
     /\ previousAfterTwo /\ previousAfterTwo'
     /\ (_currentState # SW_STATE_UNDEFINED /\ _currentState' = SW_STATE_UNDEFINED
           => lastOp' = "reset")
     /\ (_currentState = SW_STATE_UNDEFINED <=> reported = 0)
    ]_vars

\* the second change was reported: the first state the push
\* button double long analyzer gave is the previous state now
C32_Witness ==
  /\ _SSA = "pbdl" /\ lastOp = "hasChanged" /\ ret /\ reported = 2
  /\ Elapsed(now) > Elapsed(_lastReadMillis)
  /\ _previousState = PBDL_STATE_E_OFF /\ _currentState = PBDL_STATE_E_SINGLE
(***************************************************************************)
(* The analyzers with a double push time short enough that two time outs   *)
(* fit between two hasChanged() calls that lie far apart.                  *)
(***************************************************************************)
ShortDoubleArgs == {<<2, 0, FALSE>>, <<2, 1, TRUE>>}

SequenceConfigs ==
       { c \in Configs : c.ssa \in {"pbr", "rea"} }
  \cup { [ctor |-> "ssa", ssa |-> "pbdl", port |-> "digital", numState |-> 0,
          readCycleMillis |-> 0, longStartMillis |-> 0, repeatMillis |-> 0,
          maxDoubleMillis |-> a[1], minLongMillis |-> a[2], endLongByTime |-> a[3],
          debounceMillis |-> d, invertRaw |-> inv, enableMapping |-> m]
         : a \in ShortDoubleArgs, d \in DebounceArgs, inv \in BOOLEAN, m \in BOOLEAN }

SequenceInit == \E c \in SequenceConfigs : \E t \in StartTimes : Constructed(c, t)

SequenceSpec == SequenceInit /\ [][Next]_vars

(***************************************************************************)
(* C33: the states an analyzer returns for a completed sequence            *)
(* (PBR_STATE_E_SINGLE; PBDL_STATE_E_SINGLE, _DOUBLE, _LONG;               *)
(* REA_STATE_E_DIRECTION_R, _L) are never returned by two getAnalyzerState *)
(* calls in a row, whatever the time between the calls, so hasChanged()    *)
(* returns true for every one of them.                                     *)
(***************************************************************************)
\* the states returned once for a completed sequence
sequenceStates(ssa) ==
  CASE ssa = "pbr"  -> {PBR_STATE_E_SINGLE}
    [] ssa = "pbdl" -> {PBDL_STATE_E_SINGLE, PBDL_STATE_E_DOUBLE, PBDL_STATE_E_LONG}
    [] ssa = "rea"  -> {REA_STATE_E_DIRECTION_R, REA_STATE_E_DIRECTION_L}
    [] OTHER        -> {}

\* _currentState is the state the last getAnalyzerState call returned, or
\* SW_STATE_UNDEFINED when there was none since init() or reset()
C33_SequenceStatesNotRepeated ==
  [][AnalyzerStep /\ stepOut \in sequenceStates(_SSA) =>
       _currentState # stepOut /\ ret']_vars

(***************************************************************************)
(* The push button analyzers behind a Switch whose hasChanged() is called  *)
(* from loop() over and over: at least one call in every millisecond, the  *)
(* clock goes on, and a call that can do something is made at last.        *)
(***************************************************************************)
\* (longStartMillis, repeatMillis): a repeat period that lasts as long as the
\* longest time between two calls of getAnalyzerState, a millisecond of the
\* clock and MaxSkew
LivePBRArgs == {<<1, MaxSkew + 1>>}
\* (maxDoubleMillis, minLongMillis, endLongByTime)
LivePBDLArgs == {<<0, 2, TRUE>>, <<2, 0, FALSE>>}

LiveConfigs ==
       { [ctor |-> "ssa", ssa |-> "pbr", port |-> "digital", numState |-> 0,
          readCycleMillis |-> 0, longStartMillis |-> a[1], repeatMillis |-> a[2],
          maxDoubleMillis |-> 0, minLongMillis |-> 0, endLongByTime |-> FALSE,
          debounceMillis |-> d, invertRaw |-> inv, enableMapping |-> FALSE]
         : a \in LivePBRArgs, d \in DebounceArgs, inv \in BOOLEAN }
  \cup { [ctor |-> "ssa", ssa |-> "pbdl", port |-> "digital", numState |-> 0,
          readCycleMillis |-> 0, longStartMillis |-> 0, repeatMillis |-> 0,
          maxDoubleMillis |-> a[1], minLongMillis |-> a[2], endLongByTime |-> a[3],
          debounceMillis |-> d, invertRaw |-> inv, enableMapping |-> FALSE]
         : a \in LivePBDLArgs, d \in DebounceArgs, inv \in BOOLEAN }

LiveInit == \E c \in LiveConfigs : \E t \in StartTimes : Constructed(c, t)

\* the clock goes on by a millisecond in which loop() called hasChanged()
PolledTick == lastOp = "hasChanged" /\ Tick

LiveNext == hasChanged \/ PolledTick \/ PinChange

LiveSpec ==
  LiveInit /\ [][LiveNext]_vars /\ WF_vars(hasChanged) /\ WF_vars(PolledTick)

(***************************************************************************)
(* C34: with hasChanged() called over and over while the clock goes on,    *)
(* and the raw state taken over staying as it is, getAnalyzerState is      *)
(* called at every read, so what is due by time alone is reported by a     *)
(* hasChanged() that returns true:                                         *)
(*  - PBDL_STATE_E_LONG for the held button (endLongByTime,                *)
(*    minLongMillis > 0);                                                  *)
(*  - PBDL_STATE_E_SINGLE after a single push (maxDoubleMillis > 0);       *)
(*  - PBR_STATE_E_CONT_A for the held button, and then each change         *)
(*    between CONT_A and CONT_B (longStartMillis > 0, repeatMillis > 0).   *)
(* Each holds for what is due inside the time explored (MaxTime).          *)
(***************************************************************************)
\* the button is pushed, as hasChanged() reads it
heldOn == readRawState = SW_STATE_DEFAULT_ON

\* the raw state was taken over and the port still gives it
rawTakenOver == ~_debouncing /\ _lastRawState = readRawState

\* the last operation was a hasChanged() that returned true and left state
reportedState(state) ==
  lastOp = "hasChanged" /\ ret /\ ssaSteps = 1 /\ _currentState = state

\* the position within the two repeat periods at the clock value t
repeatPhaseAt(t) ==
  PBR_repeatDuration(ProcDuration(t, _procStart), _longStartMillis, _repeatMillis)

\* the earliest time of the next read of the port, as the read cycle allows
nextRead == Max(Elapsed(now), Elapsed(_lastReadMillis) + _readCycleMillis)

\* a read inside the time explored can come in the second repeat period
periodBAhead ==
  \E e \in nextRead..MaxTime :
     repeatPhaseAt((bootTime + e) % ClockMod) >= _repeatMillis

\* a read inside the time explored can come in the first repeat period again
periodAAhead ==
  \E e \in nextRead..MaxTime :
     /\ ProcDuration((bootTime + e) % ClockMod, _procStart) > _longStartMillis
     /\ repeatPhaseAt((bootTime + e) % ClockMod) < _repeatMillis

longDue ==
  /\ _SSA = "pbdl" /\ _endLongByTime /\ _minLongMillis > 0
  /\ _internalState = PBDL_STATE_I_ON /\ heldOn /\ rawTakenOver
  /\ Elapsed(_procStart) + _minLongMillis < MaxTime

singleDue ==
  /\ _SSA = "pbdl" /\ _maxDoubleMillis > 0
  /\ _internalState = PBDL_STATE_I_DBLOFF /\ ~heldOn /\ rawTakenOver
  /\ Elapsed(_procStart) + _maxDoubleMillis < MaxTime

repeating == _SSA = "pbr" /\ _longStartMillis > 0 /\ _repeatMillis > 0

contDue ==
  /\ repeating /\ _internalState = PBR_STATE_I_ON /\ heldOn /\ rawTakenOver
  /\ Elapsed(_procStart) + _longStartMillis <= MaxTime

contBDue ==
  /\ repeating /\ _internalState = PBR_STATE_I_CONT_A /\ heldOn /\ rawTakenOver
  /\ periodBAhead

contADue ==
  /\ repeating /\ _internalState = PBR_STATE_I_CONT_B /\ heldOn /\ rawTakenOver
  /\ periodAAhead

DurationPBRArgs == {<<2, 1>>, <<2000, 2000>>}
\* (maxDoubleMillis, minLongMillis, endLongByTime)
DurationPBDLArgs == {<<3, 2, FALSE>>, <<3, 2, TRUE>>, <<4000, 60000, TRUE>>}
\* the times since the construction at which hasChanged() is called
DurationTimes == {0, 1, 2, 3, 2001, 4001, 6001, 60001, 65535, 65536, 65537}

DurationConfigs ==
       { [ctor |-> "ssa", ssa |-> "pbr", port |-> "digital", numState |-> 0,
          readCycleMillis |-> 0, longStartMillis |-> a[1], repeatMillis |-> a[2],
          maxDoubleMillis |-> 0, minLongMillis |-> 0, endLongByTime |-> FALSE,
          debounceMillis |-> 0, invertRaw |-> inv, enableMapping |-> FALSE]
         : a \in DurationPBRArgs, inv \in BOOLEAN }
  \cup { [ctor |-> "ssa", ssa |-> "pbdl", port |-> "digital", numState |-> 0,
          readCycleMillis |-> 0, longStartMillis |-> 0, repeatMillis |-> 0,
          maxDoubleMillis |-> a[1], minLongMillis |-> a[2], endLongByTime |-> a[3],
          debounceMillis |-> 0, invertRaw |-> inv, enableMapping |-> FALSE]
         : a \in DurationPBDLArgs, inv \in BOOLEAN }

DurationInit ==
  \E c \in DurationConfigs : \E t \in {0, ClockMod - WrapLead} : Constructed(c, t)

\* getAnalyzerState of the referenced push button analyzer, with the start of
\* the sequence handed over
analyzerAt(current, switchState, procStart) ==
  IF _SSA = "pbr"
  THEN PBR_getAnalyzerState(current, switchState, _longStartMillis, _repeatMillis,
                            _internalState, procStart)
  ELSE PBDL_getAnalyzerState(current, switchState, _maxDoubleMillis, _minLongMillis,
                             _endLongByTime, _internalState, procStart)

\* the pin has the level, millis() gives the clock value current, and
\* hasChanged() is called, past the read cycle: it reads, takes the raw state
\* over and lets the analyzer work (_debounceMillis is 0)
hasChanged_at(current, level) ==
  LET rawState == IF _invertRaw THEN invertRawState(numRawStates, level) ELSE level
      r == analyzerAt(current, rawState, _procStart)
  IN  /\ ~(_readCycleMillis > 0 /\ TimeDiff(current, _lastReadMillis) < _readCycleMillis)
      /\ now' = current /\ pinA' = level
      /\ _debouncing' = FALSE
      /\ _lastRawState' = rawState
      /\ _lastReadMillis' = current
      /\ _internalState' = r.st
      /\ _procStart' = r.ps
      /\ seqStart' = seqStartAfter(_SSA, _internalState, r.st, current, seqStart)
      /\ hasChanged_update(r.out)
      /\ lastOp' = "hasChanged" /\ portReads' = 1 /\ ssaSteps' = 1
      /\ reported' = reportedAfter(ret')
      /\ UNCHANGED <<bootTime, pinB, construction, ssaConfig, _mapValues, loopCall>>

hasChanged_later ==
  \E t \in DurationTimes, level \in {0, 1} :
     /\ t >= Elapsed(now)
     /\ hasChanged_at((bootTime + t) % ClockMod, level)

DurationSpec == DurationInit /\ [][hasChanged_later]_vars

(***************************************************************************)
(* C35: both push button analyzers keep the time since the start of the    *)
(* sequence as (unsigned int)(current - _procStart).  As long as the time  *)
(* that really went by since the start of the sequence is below 65536 ms,  *)
(* also with millis() wrapping around in between, procDuration is that     *)
(* time, so every comparison with longStartMillis, maxDoubleMillis and     *)
(* minLongMillis, the position within the repeat periods, the state        *)
(* returned and the internal state are those that the time computed        *)
(* without any wrap or cut gives.                                          *)
(***************************************************************************)
\* the analyzer is within a sequence: _procStart holds a clock value
inSequence ==
  \/ _SSA = "pbr" /\ _internalState \in {PBR_STATE_I_ON, PBR_STATE_I_CONT_A,
                                        PBR_STATE_I_CONT_B}
  \/ _SSA = "pbdl" /\ _internalState \in {PBDL_STATE_I_ON, PBDL_STATE_I_DBLOFF,
                                         PBDL_STATE_I_DBL2ON, PBDL_STATE_I_LONGTIMEOUT}

\* the time that went by between _procStart and the clock value t, counted
\* from the construction without wrap
sinceStart(t) == Elapsed(t) - Elapsed(_procStart)

sameComparisons(procDuration, e, threshold) ==
  /\ (procDuration > threshold) <=> (e > threshold)
  /\ (procDuration >= threshold) <=> (e >= threshold)
  /\ (procDuration < threshold) <=> (e < threshold)

C35_DurationUpTo65Seconds ==
  [][PollStep /\ ssaSteps' = 1 /\ inSequence /\ sinceStart(now') < UIntMod =>
       LET e == sinceStart(now')
           procDuration == ProcDuration(now', _procStart)
           unbounded == analyzerAt(e, _lastRawState', 0)
       IN  /\ procDuration = e
           /\ sameComparisons(procDuration, e, _longStartMillis)
           /\ sameComparisons(procDuration, e, _maxDoubleMillis)
           /\ sameComparisons(procDuration, e, _minLongMillis)
           /\ PBR_repeatDuration(procDuration, _longStartMillis, _repeatMillis)
                = (IF _repeatMillis > 0 /\ e > _longStartMillis
                   THEN (e - _longStartMillis) % (2 * _repeatMillis) ELSE 0)
           /\ stepOut = unbounded.out
           /\ _internalState' = unbounded.st
    ]_vars

\* the button held for 65535 ms, with the wrap of millis() in between, was
\* reported as a long push
C35_Witness ==
  /\ _SSA = "pbdl" /\ _internalState = PBDL_STATE_I_LONGTIMEOUT
  /\ lastOp = "hasChanged" /\ ret /\ _currentState = PBDL_STATE_E_LONG
  /\ sinceStart(now) = UIntMod - 1
  /\ now < _procStart
====
